---- MODULE Spec2Model ----
(***************************************************************************)
(* Model of the kickoff launcher session (src/src/app.rs), its ranking     *)
(* engine (src/src/selection.rs) and its arithmetic evaluator              *)
(* (src/src/calculator.rs).                                                *)
(*                                                                         *)
(* Text is a sequence of one-character strings.  Positions kept by the     *)
(* program (select_index, the entries of last_search_result) are 0-based   *)
(* as in the source; TLA+ sequences are 1-based, so a lookup adds one.     *)
(* f64 values are modelled by exact rationals <<numerator, denominator>>   *)
(* in lowest terms with a positive denominator.                            *)
(***************************************************************************)
EXTENDS Integers, Sequences, FiniteSets, TLC

(***************************************************************************)
(* Bounds of the model.                                                    *)
(***************************************************************************)
MaxQuery == 3
MaxDist == 3
MaxExec == 2
MaxLines == 3
MaxList == 3
MaxText == 3

(***************************************************************************)
(* Characters.                                                             *)
(***************************************************************************)
Digits == {"0", "1", "2", "3", "4", "5", "6", "7", "8", "9"}

DigitVal(c) ==
  CASE c = "0" -> 0 [] c = "1" -> 1 [] c = "2" -> 2 [] c = "3" -> 3
    [] c = "4" -> 4 [] c = "5" -> 5 [] c = "6" -> 6 [] c = "7" -> 7
    [] c = "8" -> 8 [] c = "9" -> 9

DigitChar(d) ==
  CASE d = 0 -> "0" [] d = 1 -> "1" [] d = 2 -> "2" [] d = 3 -> "3"
    [] d = 4 -> "4" [] d = 5 -> "5" [] d = 6 -> "6" [] d = 7 -> "7"
    [] d = 8 -> "8" [] d = 9 -> "9"

\* char::is_whitespace, restricted to the characters of the model
Whitespace == {" ", "\t", "\n"}

(***************************************************************************)
(* Rational arithmetic standing for f64.                                   *)
(***************************************************************************)
Abs(x) == IF x < 0 THEN -x ELSE x

RECURSIVE Gcd(_, _)
Gcd(a, b) == IF b = 0 THEN a ELSE Gcd(b, a % b)

Norm(n, d) ==
  LET g == Gcd(Abs(n), Abs(d))
      s == IF d < 0 THEN -1 ELSE 1
  IN  <<(s * n) \div g, (s * d) \div g>>

RAdd(a, b) == Norm(a[1] * b[2] + b[1] * a[2], a[2] * b[2])
RSub(a, b) == Norm(a[1] * b[2] - b[1] * a[2], a[2] * b[2])
RMul(a, b) == Norm(a[1] * b[1], a[2] * b[2])
RDiv(a, b) == Norm(a[1] * b[2], a[2] * b[1])
RNeg(a) == <<-a[1], a[2]>>
RZero == <<0, 1>>

RECURSIVE Pow10(_)
Pow10(k) == IF k = 0 THEN 1 ELSE 10 * Pow10(k - 1)

(***************************************************************************)
(* calculator.rs: tokens                                                   *)
(***************************************************************************)
Tok(t) == [type |-> t, val |-> RZero]
NumberTok(v) == [type |-> "Number", val |-> v]

Ok(v) == [ok |-> TRUE, val |-> v, err |-> ""]
Err(e) == [ok |-> FALSE, val |-> RZero, err |-> e]

\* parse_number: the longest run of digits holding at most one '.',
\* starting at position i; yields the position after the run
RECURSIVE NumberEnd(_, _, _)
NumberEnd(s, i, has_dot) ==
  IF i > Len(s) THEN i
  ELSE IF s[i] \in Digits THEN NumberEnd(s, i + 1, has_dot)
  ELSE IF s[i] = "." /\ ~has_dot THEN NumberEnd(s, i + 1, TRUE)
  ELSE i

RECURSIVE DigitsValue(_)
DigitsValue(ds) ==
  IF ds = <<>> THEN 0
  ELSE 10 * DigitsValue(SubSeq(ds, 1, Len(ds) - 1)) + DigitVal(ds[Len(ds)])

\* str::parse::<f64> on a run of digits with at most one '.', optionally
\* signed: fails exactly when the run holds no digit
\* the number of characters of the run after its '.', 0 without a '.'
FracLen(run) ==
  IF \E k \in 1..Len(run) : run[k] = "."
  THEN Len(run) - (CHOOSE k \in 1..Len(run) : run[k] = ".")
  ELSE 0

Signed(v, negative) == IF negative THEN RNeg(v) ELSE v

ParseDigits(ds, frac, negative) ==
  IF ds = <<>> THEN Err("Invalid number")
  ELSE Ok(Signed(Norm(DigitsValue(ds), Pow10(frac)), negative))

ParseF64(run, negative) ==
  ParseDigits(SelectSeq(run, LAMBDA c : c \in Digits), FracLen(run), negative)

NumberAt(s, i, e, negative) ==
  [res |-> ParseF64(SubSeq(s, i, e - 1), negative), next |-> e]

parse_number(s, i, negative) == NumberAt(s, i, NumberEnd(s, i, FALSE), negative)

\* a variant that takes every '-' for a possible sign
SignContext_anywhere(tokens) == TRUE

SignContext(tokens) ==
  \/ tokens = <<>>
  \/ tokens[Len(tokens)].type \in {"LeftParen", "Plus", "Minus", "Multiply", "Divide"}

RECURSIVE tokenize_from(_, _, _)

\* let num = parse_number(..)?; tokens.push(Token::Number(num))
push_number(s, tokens, p) ==
  IF p.res.ok
  THEN tokenize_from(s, p.next, Append(tokens, NumberTok(p.res.val)))
  ELSE [ok |-> FALSE, tokens |-> <<>>, err |-> p.res.err]

tokenize_char(s, i, tokens, ch) ==
  CASE ch = " " -> tokenize_from(s, i + 1, tokens)
    [] ch = "+" -> tokenize_from(s, i + 1, Append(tokens, Tok("Plus")))
    [] ch = "-" ->
         IF /\ SignContext(tokens)
            /\ i + 1 <= Len(s)
            /\ (s[i + 1] \in Digits \/ s[i + 1] = ".")
         THEN push_number(s, tokens, parse_number(s, i + 1, TRUE))
         ELSE tokenize_from(s, i + 1, Append(tokens, Tok("Minus")))
    [] ch = "*" -> tokenize_from(s, i + 1, Append(tokens, Tok("Multiply")))
    [] ch = "/" -> tokenize_from(s, i + 1, Append(tokens, Tok("Divide")))
    [] ch = "(" -> tokenize_from(s, i + 1, Append(tokens, Tok("LeftParen")))
    [] ch = ")" -> tokenize_from(s, i + 1, Append(tokens, Tok("RightParen")))
    [] ch \in Digits \cup {"."} ->
         push_number(s, tokens, parse_number(s, i, FALSE))
    [] OTHER -> [ok |-> FALSE, tokens |-> <<>>, err |-> "Unexpected character"]

tokenize_from(s, i, tokens) ==
  IF i > Len(s) THEN [ok |-> TRUE, tokens |-> tokens, err |-> ""]
  ELSE tokenize_char(s, i, tokens, s[i])

tokenize(s) == tokenize_from(s, 1, <<>>)

(***************************************************************************)
(* calculator.rs: recursive-descent parser.  A parse result is             *)
(* [ok, val, rest, err]: rest is the token queue left after the parse.     *)
(***************************************************************************)
POk(v, rest) == [ok |-> TRUE, val |-> v, rest |-> rest, err |-> ""]
PErr(e) == [ok |-> FALSE, val |-> RZero, rest |-> <<>>, err |-> e]

RECURSIVE parse_factor(_), mul_loop(_, _), add_loop(_, _)

\* let mut left = parse_factor(tokens)?; then the loop
mul_from(l) == IF l.ok THEN mul_loop(l.val, l.rest) ELSE l

\* a variant without the loop over '*' and '/'
parse_multiplication_single_factor(tokens) == parse_factor(tokens)

parse_multiplication(tokens) == mul_from(parse_factor(tokens))

\* let mut left = parse_multiplication(tokens)?; then the loop
add_from(l) == IF l.ok THEN add_loop(l.val, l.rest) ELSE l

parse_addition(tokens) == add_from(parse_multiplication(tokens))

parse_expression(tokens) == parse_addition(tokens)

\* left += right
add_right(left, r) == IF r.ok THEN add_loop(RAdd(left, r.val), r.rest) ELSE r

\* left -= right
sub_right(left, r) == IF r.ok THEN add_loop(RSub(left, r.val), r.rest) ELSE r

add_loop(left, tokens) ==
  IF tokens = <<>> THEN POk(left, tokens)
  ELSE IF Head(tokens).type = "Plus"
  THEN add_right(left, parse_multiplication(Tail(tokens)))
  ELSE IF Head(tokens).type = "Minus"
  THEN sub_right(left, parse_multiplication(Tail(tokens)))
  ELSE POk(left, tokens)

\* left *= right
mul_right(left, r) == IF r.ok THEN mul_loop(RMul(left, r.val), r.rest) ELSE r

\* if right == 0.0 { return Err(..) }; left /= right
div_right(left, r) ==
  IF ~r.ok THEN r
  ELSE IF r.val = RZero THEN PErr("Division by zero")
  ELSE mul_loop(RDiv(left, r.val), r.rest)

mul_loop(left, tokens) ==
  IF tokens = <<>> THEN POk(left, tokens)
  ELSE IF Head(tokens).type = "Multiply"
  THEN mul_right(left, parse_factor(Tail(tokens)))
  ELSE IF Head(tokens).type = "Divide"
  THEN div_right(left, parse_factor(Tail(tokens)))
  ELSE POk(left, tokens)

\* the closing parenthesis after a parenthesised expression
close_paren(r) ==
  IF ~r.ok THEN r
  ELSE IF r.rest # <<>> /\ Head(r.rest).type = "RightParen"
  THEN POk(r.val, Tail(r.rest))
  ELSE PErr("Missing closing parenthesis")

\* Ok(-factor)
negated(r) == IF r.ok THEN POk(RNeg(r.val), r.rest) ELSE r

factor_of(t, rest) ==
  CASE t.type = "Number" -> POk(t.val, rest)
    [] t.type = "LeftParen" -> close_paren(parse_expression(rest))
    [] t.type = "Minus" -> negated(parse_factor(rest))
    [] t.type = "Plus" -> parse_factor(rest)
    [] OTHER -> PErr("Expected number or opening parenthesis")

parse_factor(tokens) ==
  IF tokens = <<>> THEN PErr("Expected number or opening parenthesis")
  ELSE factor_of(Head(tokens), Tail(tokens))

\* a variant that accepts tokens left after the expression
whole_ignoring_rest(r) == IF ~r.ok THEN Err(r.err) ELSE Ok(r.val)

\* the end of evaluate: no token may be left
whole(r) ==
  IF ~r.ok THEN Err(r.err)
  ELSE IF r.rest # <<>> THEN Err("Unexpected tokens at end of expression")
  ELSE Ok(r.val)

evaluate_tokens(t) ==
  IF ~t.ok THEN Err(t.err)
  ELSE IF t.tokens = <<>> THEN Err("Empty expression")
  ELSE whole(parse_expression(t.tokens))

evaluate(input) == evaluate_tokens(tokenize(input))

\* str::trim
RECURSIVE TrimStart(_), TrimEnd(_)
TrimStart(s) ==
  IF s # <<>> /\ Head(s) \in Whitespace THEN TrimStart(Tail(s)) ELSE s
TrimEnd(s) ==
  IF s # <<>> /\ s[Len(s)] \in Whitespace
  THEN TrimEnd(SubSeq(s, 1, Len(s) - 1)) ELSE s
Trim(s) == TrimEnd(TrimStart(s))

has_number(t) == \E k \in 1..Len(t) : t[k] \in Digits \cup {"."}

is_math_trimmed(t) ==
  IF t = <<>> THEN FALSE
  ELSE IF ~has_number(t) THEN FALSE
  ELSE evaluate(t).ok

is_math_expression(input) == is_math_trimmed(Trim(input))

(***************************************************************************)
(* calculator.rs: format_result.  The thresholds compare the magnitude     *)
(* with 1e15 through the number of digits of the integral part.            *)
(***************************************************************************)
RECURSIVE NatToChars(_)
NatToChars(n) ==
  IF n < 10 THEN <<DigitChar(n)>>
  ELSE Append(NatToChars(n \div 10), DigitChar(n % 10))

\* format!("{}", i64)
IntToChars(n) == IF n < 0 THEN <<"-">> \o NatToChars(-n) ELSE NatToChars(n)

\* digits of the fractional part rem/d, at most k of them
RECURSIVE FracDigits(_, _, _)
FracDigits(rem, d, k) ==
  IF rem = 0 \/ k = 0 THEN <<>>
  ELSE <<DigitChar((rem * 10) \div d)>> \o FracDigits((rem * 10) % d, d, k - 1)

RECURSIVE StripZeros(_)
StripZeros(ds) ==
  IF Len(ds) > 1 /\ ds[Len(ds)] = "0"
  THEN StripZeros(SubSeq(ds, 1, Len(ds) - 1)) ELSE ds

\* the fractional digits an f64 prints in full
F64FracDigits == 16

Sign(n) == IF n < 0 THEN <<"-">> ELSE <<>>

\* format!("{:e}", f64) of a value with integral part ip
LowerExp(n, ip, ds) ==
  Sign(n) \o <<ds[1]>>
    \o (IF Len(ds) > 1 THEN <<".">> \o Tail(ds) ELSE <<>>)
    \o <<"e">> \o NatToChars(Len(NatToChars(ip)) - 1)

\* format!("{}", f64) of a value with a fractional part
Display(n, d, ip) ==
  Sign(n) \o NatToChars(ip) \o <<".">> \o FracDigits(Abs(n) % d, d, F64FracDigits)

format_parts(n, d, ip, below1e15) ==
  IF d = 1 /\ below1e15 THEN IntToChars(n)
  ELSE IF ~below1e15 THEN LowerExp(n, ip, StripZeros(NatToChars(ip)))
  ELSE Display(n, d, ip)

format_result(result) ==
  format_parts(result[1], result[2], Abs(result[1]) \div result[2],
               Len(NatToChars(Abs(result[1]) \div result[2])) <= 15)

(***************************************************************************)
(* selection.rs: Element and the ranking engine                            *)
(***************************************************************************)
Element(name, value, base_score) ==
  [name |-> name, value |-> value, base_score |-> base_score]

NoMatch == -1

\* leftmost positions of the pattern's characters in the name, 0 when the
\* pattern is not a subsequence of the name from position i on
RECURSIVE MatchPositions(_, _, _)
MatchPositions(name, pattern, i) ==
  IF pattern = <<>> THEN <<>>
  ELSE IF i > Len(name) THEN <<0>>
  ELSE IF name[i] = Head(pattern)
  THEN <<i>> \o MatchPositions(name, Tail(pattern), i + 1)
  ELSE MatchPositions(name, pattern, i + 1)

\* SkimMatcherV2::fuzzy_match(name, pattern): None unless every pattern
\* character appears in the name in order; the score rewards each matched
\* character, contiguous runs and an early first match
skim_score(ps) ==
  IF \E k \in 1..Len(ps) : ps[k] = 0 THEN NoMatch
  ELSE 16 * Len(ps)
         + 8 * Cardinality({k \in 2..Len(ps) : ps[k] = ps[k - 1] + 1})
         + (IF ps[1] = 1 THEN 8 ELSE 0)

fuzzy_match(name, pattern) ==
  IF pattern = <<>> THEN 0
  ELSE skim_score(MatchPositions(name, pattern, 1))

\* position (1-based) at which a stable descending sort inserts score sc
\* into the already sorted sequence of [score, elem] pairs
RECURSIVE InsertSorted(_, _)
InsertSorted(sorted, p) ==
  IF sorted = <<>> THEN <<p>>
  ELSE IF sorted[Len(sorted)].score >= p.score THEN Append(sorted, p)
  ELSE Append(InsertSorted(SubSeq(sorted, 1, Len(sorted) - 1), p), sorted[Len(sorted)])

RECURSIVE StableSortDesc(_)
StableSortDesc(ps) ==
  IF ps = <<>> THEN <<>>
  ELSE InsertSorted(StableSortDesc(SubSeq(ps, 1, Len(ps) - 1)), ps[Len(ps)])

\* a score that leaves base_score out
scored_without_base(x, fuzzy) ==
  [score |-> fuzzy, matched |-> fuzzy # NoMatch, elem |-> x]

\* ElementList::search: the matching elements, by effective score descending
\* (fuzzy_match(..).map(|score| score + x.base_score), x)
scored(x, fuzzy) ==
  [score |-> IF fuzzy = NoMatch THEN NoMatch ELSE fuzzy + x.base_score,
   matched |-> fuzzy # NoMatch,
   elem |-> x]

elems(sorted) == [k \in 1..Len(sorted) |-> sorted[k].elem]

ElementList_search(inner, pattern) ==
  elems(StableSortDesc(SelectSeq(
    [k \in 1..Len(inner) |-> scored(inner[k], fuzzy_match(inner[k].name, pattern))],
    LAMBDA x : x.matched)))

\* the first position of the name in the list, 0 if there is none
first_named(inner, name) ==
  IF \E k \in 1..Len(inner) : inner[k].name = name
  THEN CHOOSE k \in 1..Len(inner) :
         inner[k].name = name /\ \A j \in 1..(k - 1) : inner[j].name # name
  ELSE 0

HistoryEntry(name, value, num_used) ==
  [name |-> name, value |-> value, num_used |-> num_used]

\* a merge that adds a candidate for every entry
merge_entry_always_pushing(inner, entry, at) ==
  Append(inner, Element(entry.name, entry.value, entry.num_used))

\* the body of the loop of merge_history: overwrite the base_score of the
\* first candidate of that name, or push a new candidate
merge_entry(inner, entry, at) ==
  IF at # 0 THEN [inner EXCEPT ![at].base_score = entry.num_used]
  ELSE Append(inner, Element(entry.name, entry.value, entry.num_used))

\* ElementList::merge_history
RECURSIVE merge_history(_, _)
merge_history(inner, history) ==
  IF history = <<>> THEN inner
  ELSE merge_history(merge_entry(inner, Head(history),
                                 first_named(inner, Head(history).name)),
                     Tail(history))

(***************************************************************************)
(* selection.rs: line-directive streams                                    *)
(***************************************************************************)
\* the Err of a unit: an error and no elements
Failed(e) == [ok |-> FALSE, val |-> <<>>, err |-> e]

\* the part of t in front of its first '=', all of t without one
RECURSIVE before_eq(_)
before_eq(t) ==
  IF t = <<>> THEN <<>>
  ELSE IF Head(t) = "=" THEN <<>>
  ELSE <<Head(t)>> \o before_eq(Tail(t))

\* the part of t behind its first '='
RECURSIVE after_eq(_)
after_eq(t) ==
  IF Head(t) = "=" THEN Tail(t) ELSE after_eq(Tail(t))

has_eq(t) == \E k \in 1..Len(t) : t[k] = "="

\* input.trim().splitn(2, '=').map(str::trim): the first part and, if
\* there is a '=', the rest; splitn always yields a first part
split_line(t) ==
  IF has_eq(t)
  THEN [key |-> Trim(before_eq(t)), has_value |-> TRUE, value |-> Trim(after_eq(t))]
  ELSE [key |-> Trim(t), has_value |-> FALSE, value |-> <<>>]

\* parse_line
parse_line(input) == split_line(Trim(input))

BaseScoreKey == <<"%", "b", "a", "s", "e", "_", "s", "c", "o", "r", "e">>

\* str::parse::<usize>: decimal digits behind an optional '+'
parse_usize_digits(ds) ==
  IF ds # <<>> /\ \A k \in 1..Len(ds) : ds[k] \in Digits
  THEN [ok |-> TRUE, val |-> DigitsValue(ds)]
  ELSE [ok |-> FALSE, val |-> 0]

parse_usize(t) ==
  IF t # <<>> /\ Head(t) = "+" THEN parse_usize_digits(Tail(t))
  ELSE parse_usize_digits(t)

\* the assignment under `if let Ok(value) = value.parse::<usize>()`
set_base_score(st, parsed) ==
  IF parsed.ok THEN [st EXCEPT !.base_score = parsed.val] ELSE st

push(st, name, value) ==
  [st EXCEPT !.res = Append(@, Element(name, value, st.base_score))]

\* the match on the pair of a line, which is the same in build_files and
\* build_stdin
match_kv_pair(st, kv) ==
  IF kv.key = BaseScoreKey /\ kv.has_value
  THEN set_base_score(st, parse_usize(kv.value))
  ELSE IF kv.has_value THEN push(st, kv.key, kv.value)
  ELSE IF kv.key = <<>> THEN st
  ELSE push(st, kv.key, kv.key)

\* BufRead::read_line on a file: the line with its line feed
read_line(line) == line \o <<"\n">>

\* the while loop of build_files over the lines of one file
RECURSIVE read_file(_, _)
read_file(st, lines) ==
  IF lines = <<>> THEN st
  ELSE read_file(match_kv_pair(st, parse_line(read_line(Head(lines)))), Tail(lines))

\* a loop over the files that keeps base_score from one file to the next
files_from_keeping_score(res, files) ==
  IF files = <<>> THEN Ok(res)
  ELSE IF \E k \in 1..Len(files) : files[k].io_error THEN Failed("files")
  ELSE Ok(read_file([res |-> res, base_score |-> 0],
                    Head(files).lines
                      \o (IF Len(files) > 1 THEN files[2].lines ELSE <<>>)).res)

\* the for loop of build_files: a file that cannot be opened or read ends
\* the function with the error, and base_score starts at 0 in every file
RECURSIVE files_from(_, _)
files_from(res, files) ==
  IF files = <<>> THEN Ok(res)
  ELSE IF Head(files).io_error THEN Failed("files")
  ELSE files_from(read_file([res |-> res, base_score |-> 0], Head(files).lines).res,
                  Tail(files))

\* build_files
build_files(files) == files_from(<<>>, files)

\* the while loop of build_stdin: next_line yields the line without its
\* line feed
RECURSIVE read_stdin(_, _)
read_stdin(st, lines) ==
  IF lines = <<>> THEN st
  ELSE read_stdin(match_kv_pair(st, parse_line(Head(lines))), Tail(lines))

\* build_stdin
build_stdin(stdin) ==
  IF stdin.io_error THEN Failed("stdin")
  ELSE Ok(read_stdin([res |-> <<>>, base_score |-> 0], stdin.lines).res)

\* a readable stream of the given lines
Readable(lines) == [io_error |-> FALSE, lines |-> lines]

\* a stream whose reading fails
Unreadable(lines) == [io_error |-> TRUE, lines |-> lines]

(***************************************************************************)
(* selection.rs: the sources of ElementListBuilder                         *)
(***************************************************************************)
\* the characters of the names below, in the order of their code points
CodePoints ==
  <<"0", "1", "2", "3", "4", "5", "6", "7", "8", "9", "A", "B", "C",
    "D", "E", "F", "G", "H", "I", "J", "K", "L", "M", "N", "O", "P",
    "Q", "R", "S", "T", "U", "V", "W", "X", "Y", "Z", "a", "b", "c",
    "d", "e", "f", "g", "h", "i", "j", "k", "l", "m", "n", "o", "p",
    "q", "r", "s", "t", "u", "v", "w", "x", "y", "z">>

CodePoint(c) == CHOOSE k \in 1..Len(CodePoints) : CodePoints[k] = c

\* String::cmp(a, b) is Less or Equal
RECURSIVE StrLe(_, _)
StrLe(a, b) ==
  IF a = <<>> THEN TRUE
  ELSE IF b = <<>> THEN FALSE
  ELSE IF Head(a) = Head(b) THEN StrLe(Tail(a), Tail(b))
  ELSE CodePoint(Head(a)) < CodePoint(Head(b))

\* Element::cmp(a, b) is Less or Equal: the higher base_score first, then
\* the name; with by_name, the comparison of build_desktop, the name alone
ElemLe(a, b, by_name) ==
  IF by_name \/ a.base_score = b.base_score THEN StrLe(a.name, b.name)
  ELSE a.base_score > b.base_score

\* the stable sort of a Vec<Element>
RECURSIVE InsertElem(_, _, _)
InsertElem(sorted, x, by_name) ==
  IF sorted = <<>> THEN <<x>>
  ELSE IF ElemLe(sorted[Len(sorted)], x, by_name) THEN Append(sorted, x)
  ELSE Append(InsertElem(SubSeq(sorted, 1, Len(sorted) - 1), x, by_name),
              sorted[Len(sorted)])

RECURSIVE SortElems(_, _)
SortElems(xs, by_name) ==
  IF xs = <<>> THEN <<>>
  ELSE InsertElem(SortElems(SubSeq(xs, 1, Len(xs) - 1), by_name), xs[Len(xs)], by_name)

\* Vec::dedup_by(|a, b| a.name == b.name): of a run of equal names the
\* first element stays
RECURSIVE DedupByName(_)
DedupByName(xs) ==
  IF Len(xs) <= 1 THEN xs
  ELSE IF xs[Len(xs)].name = xs[Len(xs) - 1].name
  THEN DedupByName(SubSeq(xs, 1, Len(xs) - 1))
  ELSE Append(DedupByName(SubSeq(xs, 1, Len(xs) - 1)), xs[Len(xs)])

\* a name as a candidate that runs itself
Plain(name) == Element(name, name, 0)

\* build_path: env::var("PATH").unwrap() panics without PATH, which the
\* join handle reports as a JoinError; else the executables found, sorted
\* and without repeated names
build_path(world) ==
  IF ~world.path_set THEN Failed("JoinError")
  ELSE Ok(DedupByName(SortElems(
            [k \in 1..Len(world.found) |-> Plain(world.found[k])], FALSE)))

starts_with(t, prefix) ==
  Len(t) >= Len(prefix) /\ SubSeq(t, 1, Len(prefix)) = prefix

Core == <<"c", "o", "r", "e">>
Snapd == <<"s", "n", "a", "p", "d">>

\* the loop of build_snap over the first words of the lines behind the
\* header line
snap_elements(names) ==
  [k \in 1..Len(names) |-> Plain(names[k])]

\* a build_snap that reports the failure of the tool
build_snap_reporting(world) ==
  IF ~world.spawned THEN Failed("snap")
  ELSE IF ~world.success THEN Failed("snap")
  ELSE Ok(snap_elements(SelectSeq(Tail(world.names),
            LAMBDA name : ~(starts_with(name, Core) \/ name = Snapd))))

\* build_snap: nothing without the tool or after a non-zero exit
build_snap(world) ==
  IF ~world.spawned THEN Ok(<<>>)
  ELSE IF ~world.success THEN Ok(<<>>)
  ELSE Ok(snap_elements(SelectSeq(Tail(world.names),
            LAMBDA name : ~(starts_with(name, Core) \/ name = Snapd))))

\* app_id.split('.').last()
RECURSIVE last_segment(_)
last_segment(t) ==
  IF \E k \in 1..Len(t) : t[k] = "." THEN last_segment(Tail(t)) ELSE t

FlatpakRun == <<"f", "l", "a", "t", "p", "a", "k", " ", "r", "u", "n", " ">>

\* the candidate of one row of the flatpak listing
flatpak_element(row) ==
  Element(IF Trim(row.name) = <<>> THEN last_segment(Trim(row.app_id)) ELSE Trim(row.name),
          FlatpakRun \o Trim(row.app_id), 0)

\* the loop of build_flatpak over the rows that name an application
flatpak_elements(rows) == [k \in 1..Len(rows) |-> flatpak_element(rows[k])]

\* build_flatpak: nothing without the tool or after a non-zero exit
build_flatpak(world) ==
  IF ~world.spawned THEN Ok(<<>>)
  ELSE IF ~world.success THEN Ok(<<>>)
  ELSE Ok(flatpak_elements(SelectSeq(world.rows, LAMBDA row : Trim(row.app_id) # <<>>)))

\* build_desktop: the parsed desktop entries, sorted by name and without
\* repeated names; unreadable directories and files are passed over
build_desktop(world) == Ok(DedupByName(SortElems(world.entries, TRUE)))

(***************************************************************************)
(* app.rs: the session                                                     *)
(***************************************************************************)
VARIABLES
  all_entries,          \* App::all_entries, the CandidateList
  query,                \* App::query
  select_index,         \* App::select_index
  select_input,         \* App::select_input: TRUE is FreeInputEditing
  last_search_result,   \* App::last_search_result, 0-based positions
  calculator_result,    \* App::calculator_result
  history,              \* App::history is Some
  stdout,               \* Args::stdout, the print mode
  hist_incs,            \* number of History::inc calls of the session
  hist_saves,           \* number of History::save calls of the session
  execs,                \* number of App::execute calls of the session
  panicked,             \* the process died on a failed unwrap
  last_op,              \* the latest operation and what it handed to the
                        \* clipboard, the caller, a child and the history
  rec,                  \* the free function execute(elem, history), step by
                        \* step, and the child it forked
  bld,                  \* ElementListBuilder::build, unit by unit
  ing,                  \* build_files and build_stdin over given lines
  call                  \* a call of a function of calculator.rs or of
                        \* ElementList, and what it returned

vars == <<all_entries, query, select_index, select_input, last_search_result,
          calculator_result, history, stdout, hist_incs, hist_saves, execs,
          panicked, last_op, rec, bld, ing, call>>

\* what the session leaves alone
Aux == <<rec, bld, ing, call>>

None == [present |-> FALSE, expr |-> <<>>, result |-> RZero]
Some(expr, result) == [present |-> TRUE, expr |-> expr, result |-> result]

\* an operation that reached no collaborator
Op(name, n) ==
  [name |-> name, n |-> n, clipboard |-> <<>>, printed |-> <<>>,
   spawned |-> <<>>, inc |-> <<>>, saved |-> FALSE, polls |-> 0,
   status |-> "none", target |-> <<>>]

\* candidate lists a session can be started with
Foo == Element(<<"f", "o", "o">>, <<"f", "o", "o">>, 0)
Foobar == Element(<<"f", "o", "o", "b", "a", "r">>, <<"f", "o", "o", "b", "a", "r">>, 0)
One == Element(<<"1">>, <<"o", "n", "e">>, 0)
Eleven == Element(<<"1", "1">>, <<"1", "1">>, 0)
F1 == Element(<<"f", "1">>, <<"f", " ", "1">>, 2)
Fo == Element(<<"f", "o">>, <<"f", "o">>, 1)

EntryLists ==
  { <<>>,
    <<Foo, Foobar>>,
    <<One, Eleven, F1>>,
    <<Fo, Foo, Fo>> }

InsertTexts == { <<"f">>, <<"1">>, <<" ">> }

\* Iterator::position(|x| x == entry), 0-based
position(inner, entry) ==
  (CHOOSE k \in 1..Len(inner) :
     /\ inner[k] = entry
     /\ \A j \in 1..(k - 1) : inner[j] # entry) - 1

\* if let Ok(result) = calculator::evaluate(&self.query)
calc_of(q, e) == IF e.ok THEN Some(q, e.val) ELSE None

calculate(q) == IF is_math_expression(q) THEN calc_of(q, evaluate(q)) ELSE None

positions(entries, search_results) ==
  [k \in 1..Len(search_results) |-> position(entries, search_results[k])]

\* App::search with the mode chosen from the ranked results alone
search_fields_ignoring_pseudo(entries, calc, search_results) ==
  [calculator_result |-> calc,
   select_input |-> (search_results = <<>>),
   select_index |-> 0,
   last_search_result |-> positions(entries, search_results)]

\* the fields App::search assigns
search_fields(entries, calc, search_results) ==
  [calculator_result |-> calc,
   select_input |-> (~calc.present /\ search_results = <<>>),
   select_index |-> 0,
   last_search_result |-> positions(entries, search_results)]

\* App::search: the fields it assigns, for the given list and query
search(entries, q) ==
  search_fields(entries, calculate(q), ElementList_search(entries, q))

\* App::get_total_results
get_total_results ==
  (IF calculator_result.present THEN 1 ELSE 0) + Len(last_search_result)

saturating_sub(a, b) == IF a > b THEN a - b ELSE 0

\* the assignments of App::search to the session's fields
AssignSearch(r) ==
  /\ calculator_result' = r.calculator_result
  /\ select_input' = r.select_input
  /\ select_index' = r.select_index
  /\ last_search_result' = r.last_search_result

DoSearch(q) == AssignSearch(search(all_entries, q))

\* the fields after the search of App::new
InitSearch(r) ==
  /\ calculator_result = r.calculator_result
  /\ select_input = r.select_input
  /\ select_index = r.select_index
  /\ last_search_result = r.last_search_result

Recorder == <<history, hist_incs, hist_saves, execs>>

\* execute(elem, history) has not been called
RecIdle ==
  [pc |-> "idle", elem |-> <<>>, hist |-> FALSE, child |-> "none",
   child_at_poll |-> "none", seen |-> "none", polls |-> 0,
   slept |-> FALSE, recorded |-> FALSE]

\* build() has not been called
BldIdle ==
  [pc |-> "idle", enabled |-> {}, fut |-> <<>>, pending |-> {},
   finished |-> <<>>, results |-> <<>>, tool |-> <<>>,
   out |-> [ok |-> FALSE, val |-> <<>>, err |-> "pending"]]

\* no function has been called
CallIdle == [pc |-> "idle", fn |-> "none", arg |-> <<>>, ret |-> <<>>]

\* nothing has been read
IngIdle ==
  [pc |-> "idle", files |-> <<>>,
   from_files |-> [ok |-> FALSE, val |-> <<>>, err |-> "pending"],
   from_stdin |-> [ok |-> FALSE, val |-> <<>>, err |-> "pending"]]

Init ==
  /\ all_entries \in EntryLists
  /\ stdout \in BOOLEAN
  /\ history \in BOOLEAN
  /\ query = <<>>
  /\ InitSearch(search(all_entries, <<>>))
  /\ hist_incs = 0
  /\ hist_saves = 0
  /\ execs = 0
  /\ panicked = FALSE
  /\ last_op = Op("new", 0)
  /\ rec = RecIdle
  /\ bld = BldIdle
  /\ ing = IngIdle
  /\ call = CallIdle

\* App::insert without the call of search
insert_without_search(input) ==
  /\ ~panicked
  /\ Len(query) + Len(input) <= MaxQuery
  /\ query' = query \o input
  /\ last_op' = Op("insert", 0)
  /\ UNCHANGED <<all_entries, stdout, panicked, Recorder, calculator_result,
                 select_input, select_index, last_search_result, Aux>>

\* App::insert
insert(input) ==
  /\ ~panicked
  /\ Len(query) + Len(input) <= MaxQuery
  /\ query' = query \o input
  /\ DoSearch(query')
  /\ last_op' = Op("insert", 0)
  /\ UNCHANGED <<all_entries, stdout, panicked, Recorder, Aux>>

\* String::pop
pop(s) == IF s = <<>> THEN s ELSE SubSeq(s, 1, Len(s) - 1)

\* App::delete
delete ==
  /\ ~panicked
  /\ query' = pop(query)
  /\ DoSearch(query')
  /\ last_op' = Op("delete", 0)
  /\ UNCHANGED <<all_entries, stdout, panicked, Recorder, Aux>>

\* the loop of App::delete_word, stopping in front of the space
RECURSIVE pop_through_space_keeping_space(_)
pop_through_space_keeping_space(s) ==
  IF s = <<>> THEN s
  ELSE IF s[Len(s)] = " " THEN s
  ELSE pop_through_space_keeping_space(pop(s))

\* the loop of App::delete_word: pop until a space or nothing was popped
RECURSIVE pop_through_space(_)
pop_through_space(s) ==
  IF s = <<>> THEN s
  ELSE IF s[Len(s)] = " " THEN pop(s)
  ELSE pop_through_space(pop(s))

\* App::delete_word
delete_word ==
  /\ ~panicked
  /\ query' = pop_through_space(pop(query))
  /\ DoSearch(query')
  /\ last_op' = Op("delete_word", 0)
  /\ UNCHANGED <<all_entries, stdout, panicked, Recorder, Aux>>

\* App::nav_up without the test of the query
nav_up_any_query(distance) ==
  /\ ~panicked
  /\ IF select_index > 0
     THEN /\ select_index' = saturating_sub(select_index, distance)
          /\ UNCHANGED select_input
     ELSE /\ select_input' = TRUE
          /\ UNCHANGED select_index
  /\ last_op' = Op("nav_up", distance)
  /\ UNCHANGED <<all_entries, query, last_search_result, calculator_result,
                 stdout, panicked, Recorder, Aux>>

\* App::nav_up
nav_up(distance) ==
  /\ ~panicked
  /\ IF select_index > 0
     THEN /\ select_index' = saturating_sub(select_index, distance)
          /\ UNCHANGED select_input
     ELSE IF query # <<>>
     THEN /\ select_input' = TRUE
          /\ UNCHANGED select_index
     ELSE UNCHANGED <<select_index, select_input>>
  /\ last_op' = Op("nav_up", distance)
  /\ UNCHANGED <<all_entries, query, last_search_result, calculator_result,
                 stdout, panicked, Recorder, Aux>>

\* App::nav_down's move with the distance left out of the guard
nav_down_index_unguarded(distance) ==
  IF select_index < get_total_results
  THEN select_index + distance
  ELSE select_index

\* the index App::nav_down moves to from NavigatingResults
nav_down_index(distance) ==
  IF select_index < saturating_sub(get_total_results, distance)
  THEN select_index + distance
  ELSE select_index

\* App::nav_down
nav_down(distance) ==
  /\ ~panicked
  /\ IF select_input
     THEN IF calculator_result.present \/ last_search_result # <<>>
          THEN /\ select_input' = FALSE
               /\ select_index' = 0
          ELSE UNCHANGED <<select_index, select_input>>
     ELSE /\ UNCHANGED select_input
          /\ select_index' = nav_down_index(distance)
  /\ last_op' = Op("nav_down", distance)
  /\ UNCHANGED <<all_entries, query, last_search_result, calculator_result,
                 stdout, panicked, Recorder, Aux>>

\* the ranked position App::complete looks up
complete_index == select_index

\* App::complete once the candidate is looked up
complete_with(app) ==
  /\ select_index' =
       IF query = app.name
       THEN IF select_index < Len(last_search_result) - 1
            THEN select_index + 1 ELSE select_index
       ELSE select_index
  /\ query' = app.name
  /\ UNCHANGED panicked

\* App::complete
complete ==
  /\ ~panicked
  /\ last_op' = Op("complete", 0)
  /\ IF select_input
     THEN UNCHANGED <<query, select_index, panicked>>
     ELSE IF complete_index >= Len(last_search_result)
     THEN \* last_search_result.get(..).unwrap() on None
          /\ panicked' = TRUE
          /\ UNCHANGED <<query, select_index>>
     ELSE complete_with(all_entries[last_search_result[complete_index + 1] + 1])
  /\ UNCHANGED <<all_entries, select_input, last_search_result,
                 calculator_result, stdout, Recorder, Aux>>

\* what the fork, or the single waitpid(child, WNOHANG) after the grace
\* interval, can report
ForkOutcomes ==
  {"ForkErr", "StillAlive", "Exited0", "ExitedNonZero", "Signaled", "WaitErr"}

\* App::execute's lookup without the adjustment for the calculator result
actual_index_unadjusted == select_index

\* the ranked position App::execute looks up
actual_index ==
  IF calculator_result.present THEN select_index - 1 ELSE select_index

\* the outcomes after which execute() of app.rs updates the history
\* a match that takes every exit status as a success
deemed_successful_any_exit(outcome) ==
  outcome \in {"StillAlive", "Exited0", "ExitedNonZero"}

deemed_successful(outcome) == outcome \in {"StillAlive", "Exited0"}

\* the free function execute(elem, history) of app.rs: fork, grace
\* interval, one non-blocking waitpid, history update
spawn_and_record(element, outcome, recorded) ==
  /\ last_op' =
       [Op("execute", 0) EXCEPT
          !.target = <<element>>,
          !.spawned = IF outcome = "ForkErr" THEN <<>> ELSE <<element.value>>,
          !.polls = IF outcome = "ForkErr" THEN 0 ELSE 1,
          !.status = outcome,
          !.inc = IF recorded THEN <<element>> ELSE <<>>,
          !.saved = recorded]
  /\ hist_incs' = IF recorded THEN hist_incs + 1 ELSE hist_incs
  /\ hist_saves' = IF recorded THEN hist_saves + 1 ELSE hist_saves
  /\ UNCHANGED panicked

\* a recorder that updates the history for members of the list only
spawn_and_check_candidates_only(element, hist, outcome) ==
  spawn_and_record(element, outcome,
                   /\ deemed_successful(outcome)
                   /\ hist
                   /\ \E k \in 1..Len(all_entries) : all_entries[k] = element)

spawn_and_check(element, hist, outcome) ==
  spawn_and_record(element, outcome, deemed_successful(outcome) /\ hist)

\* a print branch that emits the display name
print_and_record_name(element, save_ok) ==
  /\ last_op' =
       [Op("execute", 0) EXCEPT
          !.target = <<element>>,
          !.printed = <<element.name>>,
          !.inc = IF history THEN <<element>> ELSE <<>>,
          !.saved = history]
  /\ hist_incs' = IF history THEN hist_incs + 1 ELSE hist_incs
  /\ hist_saves' = IF history THEN hist_saves + 1 ELSE hist_saves
  /\ panicked' = (history /\ ~save_ok)

\* the print branch of App::execute
print_and_record(element, save_ok) ==
  /\ last_op' =
       [Op("execute", 0) EXCEPT
          !.target = <<element>>,
          !.printed = <<element.value>>,
          !.inc = IF history THEN <<element>> ELSE <<>>,
          !.saved = history]
  /\ hist_incs' = IF history THEN hist_incs + 1 ELSE hist_incs
  /\ hist_saves' = IF history THEN hist_saves + 1 ELSE hist_saves
  /\ panicked' = (history /\ ~save_ok)      \* history.save().unwrap()

\* a variant that borrows the history and leaves it in place
run_keeping_history(element, outcome, save_ok) ==
  /\ UNCHANGED history
  /\ IF stdout
     THEN print_and_record(element, save_ok)
     ELSE spawn_and_check(element, history, outcome)

\* the end of App::execute: print and record, or spawn and check
run(element, outcome, save_ok) ==
  /\ history' = FALSE       \* self.history.take()
  /\ IF stdout
     THEN print_and_record(element, save_ok)
     ELSE spawn_and_check(element, history, outcome)

\* the calculator branch of App::execute, taking the history on the way
copy_result_taking_history ==
  /\ last_op' =
       [Op("execute", 0) EXCEPT
          !.clipboard = <<format_result(calculator_result.result)>>]
  /\ history' = FALSE
  /\ UNCHANGED <<hist_incs, hist_saves, panicked>>

\* the calculator branch of App::execute: the formatted result goes to the
\* clipboard and the handler returns
copy_result ==
  /\ last_op' =
       [Op("execute", 0) EXCEPT
          !.clipboard = <<format_result(calculator_result.result)>>]
  /\ UNCHANGED <<hist_incs, hist_saves, history, panicked>>

\* App::execute
execute(outcome, save_ok) ==
  /\ ~panicked
  /\ execs < MaxExec
  /\ execs' = execs + 1
  /\ IF ~select_input /\ calculator_result.present /\ select_index = 0
     THEN copy_result
     ELSE IF ~select_input /\ (actual_index < 0 \/ actual_index >= Len(last_search_result))
     THEN \* last_search_result.get(actual_index).unwrap() on None
          /\ panicked' = TRUE
          /\ last_op' = Op("execute", 0)
          /\ UNCHANGED <<hist_incs, hist_saves, history>>
     ELSE run(IF select_input THEN Element(query, query, 0)
              ELSE all_entries[last_search_result[actual_index + 1] + 1],
              outcome, save_ok)
  /\ UNCHANGED <<all_entries, query, select_index, select_input,
                 last_search_result, calculator_result, stdout, Aux>>

Next ==
  \/ \E input \in InsertTexts : insert(input)
  \/ delete
  \/ delete_word
  \/ \E distance \in 1..MaxDist : nav_up(distance)
  \/ \E distance \in 1..MaxDist : nav_down(distance)
  \/ complete
  \/ \E outcome \in ForkOutcomes, save_ok \in BOOLEAN : execute(outcome, save_ok)

Spec == Init /\ [][Next]_vars

(***************************************************************************)
(* app.rs: execute(elem, history) step by step, next to the child it       *)
(* forks.  The child runs on its own: it may fail to exec the command,     *)
(* exit or be killed at any moment after the fork, or run for ever.        *)
(***************************************************************************)
\* what App::execute can hand over: a candidate or the free input
RecTargets ==
  { all_entries[k] : k \in 1..Len(all_entries) }
    \cup { Element(text, text, 0) : text \in InsertTexts }

\* App::execute hands the target and the taken history to execute
exec_call(element) ==
  /\ ~panicked
  /\ ~stdout
  /\ rec.pc \in {"idle", "done"}
  /\ execs < MaxExec
  /\ execs' = execs + 1
  /\ rec' = [RecIdle EXCEPT !.pc = "fork", !.elem = <<element>>, !.hist = history]
  /\ history' = FALSE
  /\ UNCHANGED <<all_entries, query, select_index, select_input,
                 last_search_result, calculator_result, stdout, hist_incs,
                 hist_saves, panicked, last_op, bld, ing, call>>

\* the steps after the call touch the recorder and the counters only
RecFrame ==
  UNCHANGED <<all_entries, query, select_index, select_input,
              last_search_result, calculator_result, stdout, history, execs,
              panicked, last_op, bld, ing, call>>

\* unsafe { fork() }: a running child, or an error that is logged
fork(ok) ==
  /\ rec.pc = "fork"
  /\ rec' = IF ok
            THEN [rec EXCEPT !.pc = "sleep", !.child = "running"]
            ELSE [rec EXCEPT !.pc = "done", !.seen = "ForkErr"]
  /\ UNCHANGED <<hist_incs, hist_saves>>
  /\ RecFrame

\* std::thread::sleep of the grace interval
sleep ==
  /\ rec.pc = "sleep"
  /\ rec' = [rec EXCEPT !.pc = "poll", !.slept = TRUE]
  /\ UNCHANGED <<hist_incs, hist_saves>>
  /\ RecFrame

\* the WaitStatus of a child
status_of(child) ==
  CASE child = "running" -> "StillAlive"
    [] child = "exited0" -> "Exited0"
    [] child = "signaled" -> "Signaled"
    [] OTHER -> "ExitedNonZero"

\* a waitpid without WNOHANG: it returns once the child has ended
waitpid_blocking(ok) ==
  /\ rec.pc = "poll"
  /\ rec.child # "running"
  /\ rec' = [rec EXCEPT !.pc = "match",
                        !.polls = @ + 1,
                        !.child_at_poll = rec.child,
                        !.seen = IF ok THEN status_of(rec.child) ELSE "WaitErr"]
  /\ UNCHANGED <<hist_incs, hist_saves>>
  /\ RecFrame

\* waitpid(child, Some(WNOHANG)): returns at once with the status or an
\* error
waitpid(ok) ==
  /\ rec.pc = "poll"
  /\ rec' = [rec EXCEPT !.pc = "match",
                        !.polls = @ + 1,
                        !.child_at_poll = rec.child,
                        !.seen = IF ok THEN status_of(rec.child) ELSE "WaitErr"]
  /\ UNCHANGED <<hist_incs, hist_saves>>
  /\ RecFrame

\* the history update of the match on the status
record(recorded) ==
  /\ rec' = [rec EXCEPT !.pc = "done", !.recorded = recorded]
  /\ hist_incs' = IF recorded THEN hist_incs + 1 ELSE hist_incs
  /\ hist_saves' = IF recorded THEN hist_saves + 1 ELSE hist_saves
  /\ RecFrame

\* a match that updates the history whatever the status
match_status_unchecked ==
  /\ rec.pc = "match"
  /\ record(rec.hist)

\* match on the status: StillAlive and Exited(_, 0) update the history
\* if there is one, everything else returns
match_status ==
  /\ rec.pc = "match"
  /\ record(deemed_successful(rec.seen) /\ rec.hist)

\* the child: exec of sh -c fails, a notification is shown, exit(2)
child_exec_failed ==
  /\ rec.child = "running"
  /\ rec' = [rec EXCEPT !.child = "exec_failed"]
  /\ UNCHANGED <<hist_incs, hist_saves>>
  /\ RecFrame

ChildEnds == {"exited0", "exited_nonzero", "signaled"}

\* the child: the command ends
child_exit(how) ==
  /\ rec.child = "running"
  /\ rec' = [rec EXCEPT !.child = how]
  /\ UNCHANGED <<hist_incs, hist_saves>>
  /\ RecFrame

\* the steps of the parent
Parent ==
  \/ \E ok \in BOOLEAN : fork(ok)
  \/ sleep
  \/ \E ok \in BOOLEAN : waitpid(ok)
  \/ match_status

NextExec ==
  \/ \E element \in RecTargets : exec_call(element)
  \/ \E ok \in BOOLEAN : fork(ok)
  \/ sleep
  \/ \E ok \in BOOLEAN : waitpid(ok)
  \/ match_status
  \/ child_exec_failed
  \/ \E how \in ChildEnds : child_exit(how)

\* the parent is sequential code whose calls all return: each of its
\* steps is taken once it is due; the child is under no obligation
ExecSpec == Init /\ [][NextExec]_vars /\ WF_vars(Parent)

(***************************************************************************)
(* selection.rs: ElementListBuilder::build.  Every enabled source runs as  *)
(* a unit of its own; the units finish in any order.                       *)
(***************************************************************************)
\* the sources in the order in which build pushes their futures
Sources == <<"stdin", "files", "path", "snap", "flatpak", "desktop">>

SourceSet == {Sources[k] : k \in 1..Len(Sources)}

\* what a unit can meet when it runs
StdinWorlds ==
  { Readable(<<<<"%", "b", "a", "s", "e", "_", "s", "c", "o", "r", "e", "=", "5">>, <<"l", "s">>, <<"n", "a", "m", "e", "=", "e", "c", "h", "o", " ", "h", "i">>>>),
    Unreadable(<<<<"l", "s">>>>) }

FilesWorlds ==
  { <<Readable(<<<<"a", "=", "b">>>>), Readable(<<<<"c">>>>)>>,
    <<Readable(<<<<"a", "=", "b">>>>), Unreadable(<<>>)>> }

PathWorlds ==
  { [path_set |-> TRUE, found |-> <<<<"l", "s">>, <<"c", "a", "t">>, <<"l", "s">>>>],
    [path_set |-> FALSE, found |-> <<>>] }

SnapWorlds ==
  { [spawned |-> FALSE, success |-> FALSE, names |-> <<>>],
    [spawned |-> TRUE, success |-> FALSE, names |-> <<>>],
    [spawned |-> TRUE, success |-> TRUE,
     names |-> <<<<"N", "a", "m", "e">>, <<"c", "o", "r", "e", "2", "0">>, <<"v", "l", "c">>, <<"s", "n", "a", "p", "d">>, <<"g", "i", "m", "p">>>>] }

FlatpakWorlds ==
  { [spawned |-> FALSE, success |-> FALSE, rows |-> <<>>],
    [spawned |-> TRUE, success |-> FALSE, rows |-> <<>>],
    [spawned |-> TRUE, success |-> TRUE,
     rows |-> << [app_id |-> <<"o", ".", "x", ".", "G">>, name |-> <<"G", "e", "e">>],
                 [app_id |-> <<"o", ".", "x", ".", "K">>, name |-> <<>>] >>] }

DesktopWorlds ==
  { [entries |-> << Element(<<"Z", "e", "d">>, <<"Z", "e", "d">>, 0), Element(<<"A", "r", "k">>, <<"A", "r", "k">>, 0), Element(<<"A", "r", "k">>, <<"l", "s">>, 0) >>] }

\* the function a unit runs
unit_result(s, world) ==
  CASE s = "stdin" -> build_stdin(world)
    [] s = "files" -> build_files(world)
    [] s = "path" -> build_path(world)
    [] s = "snap" -> build_snap(world)
    [] s = "flatpak" -> build_flatpak(world)
    [] s = "desktop" -> build_desktop(world)

\* a unit that has not finished, a result that is not there
Pending == Failed("pending")

\* whether the external tool of an enumerator ran and succeeded
ToolState(s, world) ==
  IF s \notin {"snap", "flatpak"} THEN "none"
  ELSE IF ~world.spawned THEN "absent"
  ELSE IF ~world.success THEN "failed"
  ELSE "listed"

BldFrame ==
  UNCHANGED <<all_entries, query, select_index, select_input,
              last_search_result, calculator_result, history, stdout,
              hist_incs, hist_saves, execs, panicked, last_op, rec, ing,
              call>>

\* the futures build pushes, in this order, for the enabled sources
futures(enabled) == SelectSeq(Sources, LAMBDA s : s \in enabled)

\* build up to the join: one unit per enabled source
build_spawn(enabled) ==
  /\ bld.pc = "idle"
  /\ bld' = [pc |-> "joining",
             enabled |-> enabled,
             fut |-> futures(enabled),
             pending |-> enabled,
             finished |-> <<>>,
             results |-> [s \in SourceSet |-> Pending],
             tool |-> [s \in SourceSet |-> "none"],
             out |-> Pending]
  /\ BldFrame

\* a unit runs to its end
unit_finish(s, world) ==
  /\ bld.pc = "joining"
  /\ s \in bld.pending
  /\ bld' = [bld EXCEPT !.pending = @ \ {s},
                        !.finished = Append(@, s),
                        !.results[s] = unit_result(s, world),
                        !.tool[s] = ToolState(s, world)]
  /\ BldFrame

\* join_all: the outputs in the order of the futures
join_all(fut, results) == [k \in 1..Len(fut) |-> results[fut[k]]]

\* a loop that passes over the units that failed
RECURSIVE append_all_passing_errors(_, _)
append_all_passing_errors(res, finished) ==
  IF finished = <<>> THEN Ok(res)
  ELSE IF ~Head(finished).ok THEN append_all_passing_errors(res, Tail(finished))
  ELSE append_all_passing_errors(res \o Head(finished).val, Tail(finished))

\* the loop `for elements in finished { elements??; res.append(..) }`:
\* the first error ends build
RECURSIVE append_all(_, _)
append_all(res, finished) ==
  IF finished = <<>> THEN Ok(res)
  ELSE IF ~Head(finished).ok THEN Failed(Head(finished).err)
  ELSE append_all(res \o Head(finished).val, Tail(finished))

\* a build that takes the outputs in the order in which the units finished
build_resolve_by_completion ==
  /\ bld.pc = "joining"
  /\ bld.pending = {}
  /\ bld' = [bld EXCEPT !.pc = "done",
                        !.out = append_all(<<>>, join_all(bld.finished, bld.results))]
  /\ BldFrame

\* build from the join on: it resolves once every unit has
build_resolve ==
  /\ bld.pc = "joining"
  /\ bld.pending = {}
  /\ bld' = [bld EXCEPT !.pc = "done",
                        !.out = append_all(<<>>, join_all(bld.fut, bld.results))]
  /\ BldFrame

NextBuild ==
  \/ \E enabled \in SUBSET SourceSet : build_spawn(enabled)
  \/ \E world \in StdinWorlds : unit_finish("stdin", world)
  \/ \E world \in FilesWorlds : unit_finish("files", world)
  \/ \E world \in PathWorlds : unit_finish("path", world)
  \/ \E world \in SnapWorlds : unit_finish("snap", world)
  \/ \E world \in FlatpakWorlds : unit_finish("flatpak", world)
  \/ \E world \in DesktopWorlds : unit_finish("desktop", world)
  \/ build_resolve

\* build runs before there is a session: the session's fields are those
\* of App::new over no candidates, without history and print mode
InitBuild ==
  /\ Init
  /\ all_entries = <<>>
  /\ ~stdout
  /\ ~history

BuildSpec == InitBuild /\ [][NextBuild]_vars

(***************************************************************************)
(* selection.rs: build_files and build_stdin over given lines              *)
(***************************************************************************)
LineScore5 == <<"%", "b", "a", "s", "e", "_", "s", "c", "o", "r", "e", "=", "5">>
LineLs == <<"l", "s">>
LineKv == <<"n", "a", "m", "e", "=", "e", "c", "h", "o", " ", "h", "i">>
LineBlank == <<" ", " ">>
LineScoreX == <<"%", "b", "a", "s", "e", "_", "s", "c", "o", "r", "e", "=", "x">>
LinePadded == <<" ", "k", " ", "=", " ", "a", "=", "b", " ">>
LineBare == <<"%", "b", "a", "s", "e", "_", "s", "c", "o", "r", "e">>
LineNoKey == <<"=", "v">>

Lines ==
  {LineScore5, LineLs, LineKv, LineBlank, LineScoreX, LinePadded, LineBare,
   LineNoKey}

\* the streams of at most MaxLines lines
Streams == UNION { [1..n -> Lines] : n \in 0..MaxLines }

\* what a second file can hold
SecondFiles == { <<>>, <<LineLs>>, <<LineKv, LineScore5>> }

IngFrame ==
  UNCHANGED <<all_entries, query, select_index, select_input,
              last_search_result, calculator_result, history, stdout,
              hist_incs, hist_saves, execs, panicked, last_op, rec, bld,
              call>>

\* the lines that are there to be read: two files
given(first, second) ==
  /\ ing.pc = "idle"
  /\ ing' = [ing EXCEPT !.pc = "given", !.files = <<first, second>>]
  /\ IngFrame

\* build_files over the two files
ingest_files ==
  /\ ing.pc = "given"
  /\ ing' = [ing EXCEPT
               !.pc = "files_read",
               !.from_files = build_files([k \in 1..Len(ing.files) |-> Readable(ing.files[k])])]
  /\ IngFrame

\* build_stdin, after the files, over the lines of the first file
ingest_stdin ==
  /\ ing.pc = "files_read"
  /\ ing' = [ing EXCEPT !.pc = "stdin_read",
                        !.from_stdin = build_stdin(Readable(ing.files[1]))]
  /\ IngFrame

NextIngest ==
  \/ \E first \in Streams, second \in SecondFiles : given(first, second)
  \/ ingest_files
  \/ ingest_stdin

IngestSpec == InitBuild /\ [][NextIngest]_vars

(***************************************************************************)
(* Calls of the functions of ElementList and of calculator.rs on given     *)
(* arguments                                                               *)
(***************************************************************************)
CallFrame ==
  UNCHANGED <<all_entries, query, select_index, select_input,
              last_search_result, calculator_result, history, stdout,
              hist_incs, hist_saves, execs, panicked, last_op, rec, bld, ing>>

\* the function is called on the argument
call_fn(fn, arg) ==
  /\ call.pc = "idle"
  /\ call' = [pc |-> "called", fn |-> fn, arg |-> arg, ret |-> <<>>]
  /\ CallFrame

\* what the function returns
apply(fn, arg) ==
  CASE fn = "search" -> ElementList_search(arg[1], arg[2])
    [] fn = "merge_history" -> merge_history(arg[1], arg[2])
    [] fn = "evaluate" ->
         [math |-> is_math_expression(arg.text), value |-> evaluate(arg.text),
          tokens |-> tokenize(arg.text)]

\* the function returns
return_fn ==
  /\ call.pc = "called"
  /\ call' = [call EXCEPT !.pc = "returned", !.ret = apply(call.fn, call.arg)]
  /\ CallFrame

Oof == Element(<<"o", "o", "f">>, <<"o", "o", "f">>, 3)

\* the candidates the lists are made of
Pool == {Foo, Foobar, Eleven, F1, Fo, Oof}

\* the lists of at most MaxList candidates
Lists == UNION { [1..n -> Pool] : n \in 0..MaxList }

RankQueries ==
  { <<>>, <<"f">>, <<"o">>, <<"f", "o">>, <<"o", "f">>, <<"o", "o">>,
    <<"f", "o", "o">>, <<"1">>, <<"1", "1">>, <<"f", "1">> }

NextRank ==
  \/ \E inner \in Lists, pattern \in RankQueries : call_fn("search", <<inner, pattern>>)
  \/ return_fn

RankSpec == InitBuild /\ [][NextRank]_vars

\* the lists a history is merged into
MergeLists ==
  { <<>>, <<Foo>>, <<Foo, Oof>>, <<Foo, Foo>>, <<Fo, Foo, Fo>>, <<Oof, Foo, Fo>> }

\* the entries the histories are made of: a name of the lists with two
\* counts, and a name that is in none of them with two counts
HistoryEntries ==
  { HistoryEntry(Foo.name, Foo.value, 4), HistoryEntry(Foo.name, Foo.value, 7),
    HistoryEntry(<<"z", "z">>, <<"z", "z">>, 1), HistoryEntry(<<"z", "z">>, <<"z", "v">>, 2) }

\* the histories of at most MaxList entries
Histories == UNION { [1..n -> HistoryEntries] : n \in 0..MaxList }

NextMerge ==
  \/ \E inner \in MergeLists, entries \in Histories :
       call_fn("merge_history", <<inner, entries>>)
  \/ return_fn

MergeSpec == InitBuild /\ [][NextMerge]_vars

(***************************************************************************)
(* Calls of calculator.rs on texts and on the texts of expression trees.   *)
(* A tree is <<"num", n>>, <<"neg", t>>, <<"pos", t>> or <<op, l, r>>.      *)
(***************************************************************************)
Leaf(n) == <<"num", n>>
Un(op, t) == <<op, t>>
Bin(op, l, r) == <<op, l, r>>

UnOps == {"neg", "pos"}
BinOps == {"+", "-", "*", "/"}

\* the grammar level a tree is produced at: expression, term or factor
Level(t) ==
  IF Len(t) = 3 THEN (IF t[1] \in {"+", "-"} THEN 1 ELSE 2) ELSE 3

SignChar(op) == IF op = "neg" THEN "-" ELSE "+"

\* the text of a tree, with parentheses only where the grammar needs them
RECURSIVE Render(_)
RenderAt(t, level) ==
  IF Level(t) < level THEN <<"(">> \o Render(t) \o <<")">> ELSE Render(t)
Render(t) ==
  IF t[1] = "num" THEN NatToChars(t[2])
  ELSE IF Len(t) = 2 THEN <<SignChar(t[1])>> \o RenderAt(t[2], 3)
  ELSE RenderAt(t[2], Level(t)) \o <<t[1]>> \o RenderAt(t[3], Level(t) + 1)

\* the value of a tree in ordinary arithmetic; a division by zero has none
VOk(v) == [ok |-> TRUE, val |-> v]
VNone == [ok |-> FALSE, val |-> RZero]

Combine(op, a, b) ==
  IF ~a.ok \/ ~b.ok THEN VNone
  ELSE CASE op = "+" -> VOk(RAdd(a.val, b.val))
         [] op = "-" -> VOk(RSub(a.val, b.val))
         [] op = "*" -> VOk(RMul(a.val, b.val))
         [] op = "/" -> IF b.val = RZero THEN VNone ELSE VOk(RDiv(a.val, b.val))

Signed_value(op, a) ==
  IF ~a.ok THEN VNone ELSE IF op = "neg" THEN VOk(RNeg(a.val)) ELSE a

RECURSIVE Value(_)
Value(t) ==
  IF t[1] = "num" THEN VOk(<<t[2], 1>>)
  ELSE IF Len(t) = 2 THEN Signed_value(t[1], Value(t[2]))
  ELSE Combine(t[1], Value(t[2]), Value(t[3]))

Leaves == {Leaf(2), Leaf(3), Leaf(4)}

Grow(ts) ==
  ts \cup { Un(op, t) : op \in UnOps, t \in ts }
     \cup { Bin(op, l, r) : op \in BinOps, l \in ts, r \in ts }

\* the trees with at most two operators on a path
Trees == Grow(Grow(Leaves))

\* (1+2)*3, 10-6/2, 2*3+4*5, ((1+2)*3)/4, 10/(5-5), 5/0
ExampleTrees ==
  { Bin("*", Bin("+", Leaf(1), Leaf(2)), Leaf(3)),
    Bin("-", Leaf(10), Bin("/", Leaf(6), Leaf(2))),
    Bin("+", Bin("*", Leaf(2), Leaf(3)), Bin("*", Leaf(4), Leaf(5))),
    Bin("/", Bin("*", Bin("+", Leaf(1), Leaf(2)), Leaf(3)), Leaf(4)),
    Bin("/", Leaf(10), Bin("-", Leaf(5), Leaf(5))),
    Bin("/", Leaf(5), Leaf(0)) }

EvalChars == {"5", "0", ".", "+", "-", "/", "(", ")", " ", "\t"}

\* the texts of at most MaxText characters
Texts == UNION { [1..n -> EvalChars] : n \in 0..MaxText }

ExampleTexts ==
  { <<"h", "e", "l", "l", "o">>, <<"a", "b", "c", "1", "2", "3">>,
    <<"5", ".", ".", "5">>, <<"1", "0", ".", "5", "/", "2", ".", "1">>,
    <<"5", "-", "-", "5">>, <<" ", "2", " ", "+", " ", "3", " ">> }

NoTree == <<>>

\* the trees with at most one operator on a path
SmallTrees == Grow(Leaves)

\* the ways a well-formed text is spoilt
Faults == {"char", "literal", "unclosed", "operand", "leading", "trailing", "juxtaposed"}

Spoilt(text, fault) ==
  CASE fault = "char" -> text \o <<"a">>
    [] fault = "literal" -> text \o <<"+", ".">>
    [] fault = "unclosed" -> <<"(">> \o text
    [] fault = "operand" -> text \o <<"+">>
    [] fault = "leading" -> <<"*">> \o text
    [] fault = "trailing" -> text \o <<")">>
    [] fault = "juxtaposed" -> text \o <<"(">> \o text \o <<")">>

NextEval ==
  \/ \E text \in Texts \cup ExampleTexts :
       call_fn("evaluate", [text |-> text, tree |-> NoTree, fault |-> "none"])
  \/ \E tree \in Trees \cup ExampleTrees :
       call_fn("evaluate", [text |-> Render(tree), tree |-> tree, fault |-> "none"])
  \/ \E tree \in SmallTrees \cup ExampleTrees, fault \in Faults :
       call_fn("evaluate", [text |-> Spoilt(Render(tree), fault), tree |-> tree,
                            fault |-> fault])
  \/ return_fn

EvalSpec == InitBuild /\ [][NextEval]_vars

(***************************************************************************)
(* Properties of the session                                               *)
(***************************************************************************)
Session == <<query, select_index, select_input, last_search_result,
             calculator_result>>

\* the program's NavigatingResults mode
Navigating == ~select_input

\* the ranked candidate the display highlights: slot select_index, the
\* calculator result taking slot 0 when there is one
highlighted_rank ==
  IF calculator_result.present THEN select_index - 1 ELSE select_index

\* C1: in every reachable state, NavigatingResults implies
\* 0 <= select_index < total_results, and a state with no result at all
\* is in FreeInputEditing.
Thm_C1 ==
  /\ Navigating => (0 <= select_index /\ select_index < get_total_results)
  /\ get_total_results = 0 => select_input

\* nav_down has moved the selection to the last of several slots, the
\* calculator result among them
Wit_C1 ==
  /\ last_op.name = "nav_down"
  /\ Navigating
  /\ calculator_result.present
  /\ select_index = get_total_results - 1
  /\ select_index >= 2

\* C2 as stated: whenever there is a result the mode is NavigatingResults.
Orig_C2 == get_total_results > 0 => Navigating

\* C2 amended: the session starts in NavigatingResults when it has a
\* result, and a step ends in FreeInputEditing with a result present only
\* if it started there or is nav_up at index 0 with a non-empty query.
Thm_C2 ==
  /\ Orig_C2
  /\ [][ (get_total_results' > 0 /\ select_input')
           => \/ select_input
              \/ /\ last_op'.name = "nav_up"
                 /\ select_index = 0
                 /\ query # <<>> ]_vars

\* nav_up has left the results for the raw query while results exist
Wit_C2 ==
  /\ last_op.name = "nav_up"
  /\ select_input
  /\ get_total_results > 1
  /\ calculator_result.present

\* C3: in every reachable state the ranked positions and the calculator
\* result are those of a search for the current query, and a calculator
\* result is present only for a query that evaluates, with that query as
\* its expression text.
Orig_C3 ==
  /\ last_search_result = search(all_entries, query).last_search_result
  /\ calculator_result = search(all_entries, query).calculator_result
  /\ calculator_result.present =>
       /\ is_math_expression(query)
       /\ evaluate(query).ok
       /\ calculator_result.expr = query

\* C4: execute in NavigatingResults, the calculator slot apart, resolves
\* the candidate at ranked position select_index - 1 when a calculator
\* result is present and select_index otherwise; both lookups are in range.
Thm_C4 ==
  [][ (last_op'.name = "execute" /\ Navigating
         /\ ~(calculator_result.present /\ select_index = 0))
        => LET k == IF calculator_result.present
                    THEN select_index - 1 ELSE select_index
           IN  /\ 0 <= k /\ k < Len(last_search_result)
               /\ last_search_result[k + 1] \in 0..(Len(all_entries) - 1)
               /\ last_op'.target = <<all_entries[last_search_result[k + 1] + 1]>> ]_vars

\* execute has resolved the last ranked candidate below a calculator result
Wit_C4 ==
  /\ last_op.name = "execute"
  /\ Navigating
  /\ calculator_result.present
  /\ select_index = Len(last_search_result)
  /\ select_index >= 2
  /\ last_op.target = <<all_entries[last_search_result[select_index] + 1]>>

\* C5: execute on the highlighted calculator result hands the formatted
\* result to the clipboard and does nothing else: nothing printed or
\* spawned, no liveness check, the history neither incremented, saved nor
\* taken, the session's fields unchanged.
Thm_C5 ==
  [][ (last_op'.name = "execute" /\ Navigating
         /\ calculator_result.present /\ select_index = 0)
        => /\ last_op'.clipboard = <<format_result(calculator_result.result)>>
           /\ evaluate(last_op'.clipboard[1]) = Ok(calculator_result.result)
           /\ last_op'.printed = <<>>
           /\ last_op'.spawned = <<>>
           /\ last_op'.target = <<>>
           /\ last_op'.inc = <<>>
           /\ ~last_op'.saved
           /\ last_op'.polls = 0
           /\ UNCHANGED <<history, hist_incs, hist_saves, panicked>>
           /\ UNCHANGED Session ]_vars

\* the result of 11 has gone to the clipboard of a session with a history
Wit_C5 ==
  /\ last_op.name = "execute"
  /\ last_op.clipboard = << <<"1", "1">> >>
  /\ calculator_result.result = <<11, 1>>
  /\ history

\* C6: complete in NavigatingResults with a ranked candidate highlighted
\* sets the query to the name of that candidate, the one execute resolves
\* for the same select_index, with or without a calculator result in slot
\* 0; in FreeInputEditing complete changes nothing.
Orig_C6 ==
  [][ last_op'.name = "complete"
        => /\ (Navigating /\ highlighted_rank >= 0)
                => /\ ~panicked'
                   /\ highlighted_rank < Len(last_search_result)
                   /\ query' = all_entries[last_search_result[highlighted_rank + 1] + 1].name
           /\ select_input
                => UNCHANGED <<Session, Recorder, panicked>> ]_vars

\* C7: complete advances select_index by one, capped at the last display
\* slot, when the query equals the name of the highlighted candidate, and
\* leaves select_index unchanged otherwise.
Orig_C7 ==
  [][ (last_op'.name = "complete" /\ Navigating)
        => select_index' =
             IF /\ highlighted_rank >= 0
                /\ query = all_entries[last_search_result[highlighted_rank + 1] + 1].name
             THEN IF select_index + 1 <= get_total_results - 1
                  THEN select_index + 1 ELSE get_total_results - 1
             ELSE select_index ]_vars

\* C8: nav_down(n) in NavigatingResults sets select_index to
\* min(select_index + n, total_results - 1); in FreeInputEditing it enters
\* NavigatingResults at index 0 when there is a result and changes nothing
\* otherwise.
Orig_C8 ==
  [][ last_op'.name = "nav_down"
        => IF Navigating
           THEN /\ select_index' =
                     IF select_index + last_op'.n <= get_total_results - 1
                     THEN select_index + last_op'.n ELSE get_total_results - 1
                /\ UNCHANGED select_input
           ELSE IF get_total_results > 0
           THEN ~select_input' /\ select_index' = 0
           ELSE UNCHANGED <<select_input, select_index>> ]_vars

\* C9: nav_up(n) in NavigatingResults: above index 0 it sets select_index
\* to max(select_index - n, 0) and keeps the mode; at index 0 it switches
\* to FreeInputEditing when the query is non-empty and changes nothing when
\* it is empty.  Query, ranked positions and calculator result never change.
Thm_C9 ==
  [][ (last_op'.name = "nav_up" /\ Navigating)
        => /\ select_index > 0
                => /\ select_index' = IF select_index - last_op'.n > 0
                                      THEN select_index - last_op'.n ELSE 0
                   /\ UNCHANGED select_input
           /\ (select_index = 0 /\ query # <<>>)
                => /\ select_input'
                   /\ UNCHANGED select_index
           /\ (select_index = 0 /\ query = <<>>)
                => UNCHANGED <<select_index, select_input>>
           /\ UNCHANGED <<query, last_search_result, calculator_result>> ]_vars

\* nav_up by more than the index has stopped at index 0 in NavigatingResults
Wit_C9 ==
  /\ last_op.name = "nav_up"
  /\ last_op.n >= 2
  /\ Navigating
  /\ select_index = 0
  /\ query # <<>>

\* C10: right after insert, delete or delete_word the index is 0 and the
\* mode is FreeInputEditing exactly when the new query has neither a ranked
\* result nor a calculator result; insert appends its text and delete drops
\* the last character, leaving an empty query empty.
Thm_C10 ==
  [][ last_op'.name \in {"insert", "delete", "delete_word"}
        => /\ select_index' = 0
           /\ select_input' <=>
                /\ ElementList_search(all_entries, query') = <<>>
                /\ ~(is_math_expression(query') /\ evaluate(query').ok)
           /\ select_input' <=> get_total_results' = 0
           /\ last_op'.name = "insert"
                => \E text \in InsertTexts : query' = query \o text
           /\ last_op'.name = "delete"
                => /\ query = <<>> => query' = <<>>
                   /\ query # <<>> => query' = SubSeq(query, 1, Len(query) - 1) ]_vars

\* insert has produced a query of several characters with both a
\* calculator result and ranked results
Wit_C10 ==
  /\ last_op.name = "insert"
  /\ Navigating
  /\ calculator_result.present
  /\ Len(query) >= 2
  /\ Len(last_search_result) >= 1

\* the positions of the spaces in front of the final character of q
spaces_before_last(q) == { k \in 1..(Len(q) - 1) : q[k] = " " }

\* the largest member of a non-empty set of numbers
Largest(S) == CHOOSE k \in S : \A j \in S : j <= k

\* C11: delete_word leaves the prefix of the old query that ends just
\* before the last space in front of the old query's final character, or
\* the empty query if there is no such space (the empty query stays
\* empty), and the session's fields are those of a search of the new query.
Thm_C11 ==
  [][ last_op'.name = "delete_word"
        => /\ spaces_before_last(query) = {} => query' = <<>>
           /\ spaces_before_last(query) # {}
                => query' = SubSeq(query, 1, Largest(spaces_before_last(query)) - 1)
           /\ calculator_result' = calculate(query')
           /\ last_search_result' =
                positions(all_entries, ElementList_search(all_entries, query'))
           /\ select_index' = 0
           /\ UNCHANGED <<all_entries, Recorder, panicked>> ]_vars

\* delete_word has cut a query of several words back to its first word
Wit_C11 ==
  /\ last_op.name = "delete_word"
  /\ query # <<>>
  /\ ~panicked

(***************************************************************************)
(* Properties of execute(elem, history)                                    *)
(***************************************************************************)
\* the call has returned
Returned == rec.pc = "done"

\* the single check saw the child running or exited with status zero
SeenWell == rec.seen \in {"StillAlive", "Exited0"}

\* C12 as stated: the history is incremented and persisted if and only if
\* the spawn succeeded and the single liveness check reports the child
\* still running or exited with status zero.
Orig_C12 == Returned => (rec.recorded <=> SeenWell)

\* C12: the step that ends execute(elem, history) increments and persists
\* the history, once each, if and only if a history was handed over, the
\* spawn succeeded and the single liveness check reports the child still
\* running or exited with status zero; after any other exit status, a
\* signal, a failed liveness query or a failed spawn, and in every other
\* step, the history is not updated.
Thm_C12 ==
  [][ /\ (rec.pc # "done" /\ rec'.pc = "done" /\ rec'.hist /\ rec'.seen = "StillAlive")
          => (hist_incs' = hist_incs + 1 /\ hist_saves' = hist_saves + 1 /\ rec'.recorded)
      /\ (rec.pc # "done" /\ rec'.pc = "done" /\ rec'.hist /\ rec'.seen = "Exited0")
          => (hist_incs' = hist_incs + 1 /\ hist_saves' = hist_saves + 1 /\ rec'.recorded)
      /\ (/\ rec.pc # "done" /\ rec'.pc = "done"
          /\ \/ ~rec'.hist
             \/ rec'.seen \in {"ForkErr", "WaitErr", "ExitedNonZero", "Signaled"})
          => (UNCHANGED <<hist_incs, hist_saves>> /\ ~rec'.recorded)
      /\ (rec.pc = "done" \/ rec'.pc # "done")
          => UNCHANGED <<hist_incs, hist_saves>> ]_vars

\* the call returned with the history updated after the child was seen
\* exited with status zero
Wit_C12 ==
  /\ Returned
  /\ rec.recorded
  /\ rec.seen = "Exited0"
  /\ hist_incs = 1
  /\ hist_saves = 1

\* C13: after a successful spawn the parent waits the grace interval,
\* then checks the child exactly once without blocking, and returns: at
\* most one check at any time, none before the grace interval has passed
\* or without a child, exactly one by the time the call returns after a
\* successful spawn, and every call that has started returns, whether or
\* not the child ever ends.
Thm_C13 ==
  /\ [](rec.polls <= 1)
  /\ [](rec.polls = 1 => (rec.slept /\ rec.child # "none"))
  /\ []((Returned /\ rec.child # "none") => rec.polls = 1)
  /\ []((Returned /\ rec.child = "none") => (rec.polls = 0 /\ rec.seen = "ForkErr"))
  /\ (rec.pc \in {"fork", "sleep", "poll", "match"}) ~> Returned

\* the call has returned after the grace interval and one check while the
\* child is still running
Wit_C13 ==
  /\ Returned
  /\ rec.child = "running"
  /\ rec.slept
  /\ rec.polls = 1
  /\ rec.seen = "StillAlive"

\* the child failed: it could not exec the command or exited non-zero
ChildFailed == rec.child \in {"exec_failed", "exited_nonzero"}

Resolved == last_op'.name = "execute" /\ last_op'.target # <<>>

\* the literal free input as a target
FreeInput == Element(query, query, 0)

\* the target is what the mode says: the free input or a candidate
TargetOfMode ==
  /\ select_input => last_op'.target = <<FreeInput>>
  /\ ~select_input
       => \E k \in 1..Len(all_entries) : last_op'.target = <<all_entries[k]>>

\* nothing was forked and no child was checked
NoSpawn ==
  /\ last_op'.spawned = <<>>
  /\ last_op'.polls = 0
  /\ last_op'.status = "none"

\* the target went to the spawn-and-check recorder: a child runs its
\* value and is checked once, unless the fork failed
Handed ==
  /\ last_op'.status \in ForkOutcomes
  /\ last_op'.status = "ForkErr" => (last_op'.spawned = <<>> /\ last_op'.polls = 0)
  /\ last_op'.status # "ForkErr"
       => (last_op'.spawned = <<last_op'.target[1].value>> /\ last_op'.polls = 1)

\* the step incremented the counter of its target and saved the history
Updated ==
  /\ last_op'.inc = last_op'.target
  /\ last_op'.saved
  /\ hist_incs' = hist_incs + 1
  /\ hist_saves' = hist_saves + 1

\* the step left the history alone
NotUpdated ==
  /\ last_op'.inc = <<>>
  /\ ~last_op'.saved
  /\ UNCHANGED <<hist_incs, hist_saves>>

\* C15 as stated: in print mode execute on a resolved target emits the
\* target's value and increments and persists the history in the same
\* step, without a spawn or a check; outside print mode nothing is emitted
\* and the target is handed to the recorder.
Orig_C15 ==
  [][ Resolved
        => /\ TargetOfMode
           /\ stdout => (last_op'.printed = <<last_op'.target[1].value>>
                          /\ Updated /\ NoSpawn)
           /\ ~stdout => (last_op'.printed = <<>> /\ Handed) ]_vars

\* C15: in print mode execute on a resolved target (a candidate or the
\* free input) emits the target's value and, if the session holds a
\* history, increments and persists it in the same step (without a
\* history only the value is emitted), with no spawn and no check; outside
\* print mode nothing is emitted and the target is handed to the recorder.
Thm_C15 ==
  [][ Resolved
        => /\ TargetOfMode
           /\ stdout => (last_op'.printed = <<last_op'.target[1].value>>
                          /\ NoSpawn)
           /\ (stdout /\ history) => Updated
           /\ (stdout /\ ~history) => NotUpdated
           /\ ~stdout => (last_op'.printed = <<>> /\ Handed) ]_vars

\* print mode has emitted the value of a candidate whose value differs
\* from its name and has updated the history
Wit_C15 ==
  /\ last_op.name = "execute"
  /\ stdout
  /\ last_op.target # <<>>
  /\ last_op.printed = <<last_op.target[1].value>>
  /\ last_op.target[1].value # last_op.target[1].name
  /\ last_op.inc = last_op.target
  /\ last_op.saved
  /\ ~panicked

\* C16 as stated: outside print mode, execute on the free input does not
\* increment the history, even when the check deems the run successful.
Orig_C16 ==
  [][ (Resolved /\ ~stdout /\ select_input) => NotUpdated ]_vars

\* C16: outside print mode, execute on the free input hands the query as
\* name and value to the recorder, which increments and persists the
\* history for it as for any candidate: exactly when the session holds a
\* history and the check saw the child running or exited with status zero.
Thm_C16 ==
  [][ (Resolved /\ ~stdout /\ select_input)
        => /\ last_op'.target = <<FreeInput>>
           /\ (history /\ last_op'.status \in {"StillAlive", "Exited0"}) => Updated
           /\ ~(history /\ last_op'.status \in {"StillAlive", "Exited0"}) => NotUpdated ]_vars

\* the recorder has incremented the history for a free input whose child
\* was still running at the check
Wit_C16 ==
  /\ last_op.name = "execute"
  /\ ~stdout
  /\ select_input
  /\ query # <<>>
  /\ last_op.target = <<Element(query, query, 0)>>
  /\ last_op.inc = last_op.target
  /\ last_op.status = "StillAlive"

(***************************************************************************)
(* Properties of ElementListBuilder::build                                 *)
(***************************************************************************)
Built == bld.pc = "done"

\* what an enabled source other than `skip` produced
Contribution(s, skip) ==
  IF s \in bld.enabled /\ s # skip THEN bld.results[s].val ELSE <<>>

\* the outputs in the configured order, without those of `skip`
InConfiguredOrder(skip) ==
  Contribution("stdin", skip) \o Contribution("files", skip)
    \o Contribution("path", skip) \o Contribution("snap", skip)
    \o Contribution("flatpak", skip) \o Contribution("desktop", skip)

\* every enabled unit other than `skip` returned elements
AllOk(skip) == \A s \in bld.enabled \ {skip} : bld.results[s].ok

\* C17: build returns the concatenation of the enabled sources' outputs
\* in the order stdin, files, PATH, snap, flatpak, desktop, each source's
\* candidates together and in the order its unit produced them, whatever
\* the order in which the units finished.
Thm_C17 ==
  Built => /\ AllOk("") => bld.out = Ok(InConfiguredOrder(""))
           /\ bld.out.ok => (AllOk("") /\ bld.out.val = InConfiguredOrder(""))

\* all six units produced candidates and finished in the reverse of the
\* configured order
Wit_C17 ==
  /\ Built
  /\ bld.out.ok
  /\ bld.finished = <<"desktop", "flatpak", "snap", "path", "files", "stdin">>
  /\ \A s \in SourceSet : Len(bld.results[s].val) >= 2

\* C18: build resolves only after every enabled unit has resolved, and
\* until then there is no list; if the stdin unit or the files unit failed
\* with an I/O error, build returns that error (that of stdin if both
\* failed) and no list, even when every other unit succeeded.
Thm_C18 ==
  /\ Built => /\ bld.pending = {}
              /\ Len(bld.finished) = Cardinality(bld.enabled)
              /\ \A s \in bld.enabled : bld.results[s] # Pending
  /\ ~Built => bld.out = Pending
  /\ (Built /\ "stdin" \in bld.enabled /\ ~bld.results["stdin"].ok)
        => bld.out = Failed("stdin")
  /\ (Built /\ "files" \in bld.enabled /\ ~bld.results["files"].ok
        /\ ("stdin" \in bld.enabled => bld.results["stdin"].ok))
        => bld.out = Failed("files")
  /\ ~bld.out.ok => bld.out.val = <<>>

\* the second file could not be read, the files unit finished first and
\* the five other units returned candidates after it: build returns the
\* error
Wit_C18 ==
  /\ Built
  /\ bld.enabled = SourceSet
  /\ bld.finished[1] = "files"
  /\ AllOk("files")
  /\ \A s \in SourceSet \ {"files"} : bld.results[s].val # <<>>
  /\ bld.out = Failed("files")

\* C19: a snap or flatpak unit whose listing command is absent or exits
\* non-zero returns no candidates and no error; if the other units
\* succeeded, build succeeds with exactly their candidates, and an error
\* of build is never that of an external tool.
Thm_C19 ==
  /\ Built
       => \A s \in {"snap", "flatpak"} :
            (s \in bld.enabled /\ bld.tool[s] \in {"absent", "failed"})
              => /\ bld.results[s] = Ok(<<>>)
                 /\ AllOk(s) => bld.out = Ok(InConfiguredOrder(s))
  /\ (Built /\ ~bld.out.ok)
       => /\ bld.out.err \in {"stdin", "files", "JoinError"}
          /\ \E s \in bld.enabled \cap {"stdin", "files", "path"} : ~bld.results[s].ok

\* snap is not installed, flatpak exited non-zero, and build returned the
\* candidates of the four other sources
Wit_C19 ==
  /\ Built
  /\ bld.enabled = SourceSet
  /\ bld.tool["snap"] = "absent"
  /\ bld.tool["flatpak"] = "failed"
  /\ bld.out.ok
  /\ bld.out.val = bld.results["stdin"].val \o bld.results["files"].val
                     \o bld.results["path"].val \o bld.results["desktop"].val
  /\ Len(bld.out.val) >= 8

(***************************************************************************)
(* Properties of the line-directive streams                                *)
(***************************************************************************)
\* the positions of '=' in a text
EqAt(t) == { k \in 1..Len(t) : t[k] = "=" }

\* the smallest member of a non-empty set of numbers
Smallest(S) == CHOOSE k \in S : \A j \in S : k <= j

\* KEY of a line: the trimmed line, or what stands in front of its first
\* '=', trimmed
KeyOf(line) ==
  IF EqAt(Trim(line)) = {} THEN Trim(line)
  ELSE Trim(SubSeq(Trim(line), 1, Smallest(EqAt(Trim(line))) - 1))

\* VALUE of a line: KEY without a '=', else all that stands behind the
\* first '=', trimmed
ValueOf(line) ==
  IF EqAt(Trim(line)) = {} THEN Trim(line)
  ELSE Trim(SubSeq(Trim(line), Smallest(EqAt(Trim(line))) + 1, Len(Trim(line))))

IsDirective(line) == EqAt(Trim(line)) # {} /\ KeyOf(line) = BaseScoreKey

IsBlank(line) == Trim(line) = <<>>

\* N of the directive is numeric: decimal digits
IsNumeric(line) ==
  /\ IsDirective(line)
  /\ ValueOf(line) # <<>>
  /\ \A k \in 1..Len(ValueOf(line)) : ValueOf(line)[k] \in Digits

\* the numeric directives in front of line i of a stream
ScoresBefore(lines, i) == { j \in 1..(i - 1) : IsNumeric(lines[j]) }

\* the base_score in force at line i of a stream
ScoreAt(lines, i) ==
  IF ScoresBefore(lines, i) = {} THEN 0
  ELSE DigitsValue(ValueOf(lines[Largest(ScoresBefore(lines, i))]))

\* the positions of the lines of a stream that yield a candidate
Emitting(lines) ==
  SelectSeq([i \in 1..Len(lines) |-> i],
            LAMBDA i : ~IsDirective(lines[i]) /\ ~IsBlank(lines[i]))

\* the candidates of a stream as C20 describes them
candidates_at(lines, at) ==
  [k \in 1..Len(at) |->
     Element(KeyOf(lines[at[k]]), ValueOf(lines[at[k]]), ScoreAt(lines, at[k]))]

Described(lines) == candidates_at(lines, Emitting(lines))

\* C20: over every stream of lines, KEY yields {KEY, KEY}, KEY=VALUE split
\* at the first '=' with both parts trimmed yields {KEY, VALUE}, blank
\* lines and directives yield nothing, and every candidate carries the N
\* of the latest numeric %base_score=N in front of it in its own stream, 0
\* without one (a non-numeric N changes nothing); build_files starts every
\* file at 0, build_stdin starts at 0 after the files, and the lines of a
\* file yield on standard input what they yield in the file.
Thm_C20 ==
  /\ ing.pc \in {"files_read", "stdin_read"}
       => ing.from_files = Ok(Described(ing.files[1]) \o Described(ing.files[2]))
  /\ ing.pc = "stdin_read"
       => /\ ing.from_stdin = Ok(Described(ing.files[1]))
          /\ ing.from_stdin.val = SubSeq(ing.from_files.val, 1, Len(ing.from_stdin.val))

\* the example of the specification, %base_score=5, ls, name=echo hi, in
\* a file and on standard input, with a second file whose candidate
\* starts again at 0
Wit_C20 ==
  /\ ing.pc = "stdin_read"
  /\ ing.files = << <<LineScore5, LineLs, LineKv>>, <<LineLs>> >>
  /\ ing.from_stdin.val = << Element(LineLs, LineLs, 5),
                             [name |-> SubSeq(LineKv, 1, 4),
                              value |-> SubSeq(LineKv, 6, 12),
                              base_score |-> 5] >>
  /\ ing.from_files.val = ing.from_stdin.val \o << Element(LineLs, LineLs, 0) >>

(***************************************************************************)
(* Properties of ElementList                                               *)
(***************************************************************************)
Returned_from(fn) == call.pc = "returned" /\ call.fn = fn

\* the pattern is an ordered subsequence of the name
IsSubsequence(pattern, name) ==
  \E at \in [1..Len(pattern) -> 1..Len(name)] :
    /\ \A i, j \in 1..Len(pattern) : i < j => at[i] < at[j]
    /\ \A i \in 1..Len(pattern) : name[at[i]] = pattern[i]

\* how often x stands in the sequence xs
Count(xs, x) == Cardinality({k \in 1..Len(xs) : xs[k] = x})

\* fuzzy score + base_score
Effective(x, pattern) == fuzzy_match(x.name, pattern) + x.base_score

Thm_C22 ==
  Returned_from("merge_history")
    => merge_history(call.ret, call.arg[2]) = call.ret

\* a history that names a candidate of the list and, twice, one that is
\* not in it has been merged: one candidate was added, with the count of
\* the later entry
Wit_C22 ==
  /\ Returned_from("merge_history")
  /\ call.arg[1] = <<Foo, Oof>>
  /\ Len(call.arg[2]) = 3
  /\ call.arg[2][1].name = Foo.name
  /\ call.arg[2][2].name = call.arg[2][3].name
  /\ call.arg[2][2].name # Foo.name
  /\ Len(call.ret) = 3
  /\ call.ret[1].base_score = call.arg[2][1].num_used
  /\ call.ret[3].base_score = call.arg[2][3].num_used
  /\ call.ret[3].base_score # call.arg[2][2].num_used


(***************************************************************************)
(* Properties of calculator.rs                                             *)
(***************************************************************************)
Evaluated == Returned_from("evaluate")

\* C23 as stated: is_math_expression(q) holds exactly when q contains a digit
\* or '.' and evaluate succeeds on that same text q; it is false for the
\* empty text, "hello", "abc123", "++" and "--".
Orig_C23 ==
  Evaluated =>
    /\ call.ret.math <=> (has_number(call.arg.text) /\ call.ret.value.ok)
    /\ call.arg.text \in { <<>>, <<"h", "e", "l", "l", "o">>,
                           <<"a", "b", "c", "1", "2", "3">>,
                           <<"+", "+">>, <<"-", "-">> } => ~call.ret.math


\* the value of the tree the evaluated text was made of
TreeValue == Value(call.arg.tree)

OfTree == Evaluated /\ call.arg.tree # NoTree /\ call.arg.fault = "none"

\* C24: on the text of every expression of the grammar, evaluate returns the
\* value of the expression under standard precedence, left associativity and
\* parentheses: 2+3*4 = 14, (1+2)*3 = 9, 10-6/2 = 7, 2*3+4*5 = 26,
\* ((1+2)*3)/4 = 2.25.
Thm_C24 ==
  /\ (OfTree /\ TreeValue.ok) => call.ret.value = Ok(TreeValue.val)
  /\ (Evaluated /\ call.arg.text = <<"2", "+", "3", "*", "4">>)
       => call.ret.value = Ok(<<14, 1>>)
  /\ (Evaluated /\ call.arg.text = <<"(", "1", "+", "2", ")", "*", "3">>)
       => call.ret.value = Ok(<<9, 1>>)
  /\ (Evaluated /\ call.arg.text = <<"1", "0", "-", "6", "/", "2">>)
       => call.ret.value = Ok(<<7, 1>>)
  /\ (Evaluated /\ call.arg.text = <<"2", "*", "3", "+", "4", "*", "5">>)
       => call.ret.value = Ok(<<26, 1>>)
  /\ (Evaluated /\ call.arg.text = <<"(", "(", "1", "+", "2", ")", "*", "3", ")", "/", "4">>)
       => call.ret.value = Ok(<<9, 4>>)

\* 4-3-2*3 has been evaluated to -5
Wit_C24 ==
  /\ Evaluated
  /\ call.arg.tree = Bin("-", Bin("-", Leaf(4), Leaf(3)), Bin("*", Leaf(2), Leaf(3)))
  /\ call.arg.text = <<"4", "-", "3", "-", "2", "*", "3">>
  /\ call.ret.value = Ok(<<-5, 1>>)


\* the characters of expressions
ExprChars == Digits \cup {".", "+", "-", "*", "/", "(", ")", " "}

BadCharAt(s, i) == s[i] \notin ExprChars

\* a '.' with no digit next to it
LoneDotAt(s, i) ==
  /\ s[i] = "."
  /\ i = 1 \/ s[i - 1] \notin Digits \cup {"."}
  /\ i = Len(s) \/ s[i + 1] \notin Digits

\* the text without its spaces
Dense(s) == SelectSeq(s, LAMBDA ch : ch # " ")

\* the text ends where an operand is due, or starts with a binary-only
\* operator
OperandMissing(s) ==
  LET t == Dense(s)
  IN  /\ t # <<>>
      /\ \/ t[Len(t)] \in {"+", "-", "*", "/", "("}
         \/ t[1] \in {"*", "/"}

Unbalanced(s) == Count(s, "(") # Count(s, ")")

\* the message of each way of spoiling a text
ErrorOf(fault) ==
  CASE fault = "char" -> "Unexpected character"
    [] fault = "literal" -> "Invalid number"
    [] fault = "unclosed" -> "Missing closing parenthesis"
    [] fault \in {"operand", "leading"} -> "Expected number or opening parenthesis"
    [] fault \in {"trailing", "juxtaposed"} -> "Unexpected tokens at end of expression"
    [] fault = "zero" -> "Division by zero"

\* the cause behind each way of spoiling a text
CauseOf(fault) ==
  CASE fault \in {"operand", "leading"} -> "operand"
    [] fault \in {"trailing", "juxtaposed"} -> "trailing"
    [] OTHER -> fault

\* C25: evaluate returns an error and no number for an unexpected character,
\* an unparsable literal, a missing closing parenthesis, a missing operand,
\* tokens left after a complete expression and a division by a divisor that
\* evaluates to zero; the errors of two different causes are different.
Thm_C25 ==
  /\ Evaluated =>
       LET s == call.arg.text
           v == call.ret.value
       IN  /\ ( \/ \E i \in 1..Len(s) : BadCharAt(s, i) \/ LoneDotAt(s, i)
                \/ Unbalanced(s)
                \/ OperandMissing(s)
                \/ call.arg.fault # "none"
                \/ (call.arg.tree # NoTree /\ ~TreeValue.ok) ) => ~v.ok
           /\ (\E i \in 1..Len(s) :
                 BadCharAt(s, i) /\ \A j \in 1..(i - 1) : s[j] # ".")
                => v = Err("Unexpected character")
           /\ (\E i \in 1..Len(s) :
                 LoneDotAt(s, i) /\ \A j \in 1..(i - 1) : ~BadCharAt(s, j))
                => v = Err("Invalid number")
           /\ (call.arg.fault \in {"char", "literal"})
                => v = Err(ErrorOf(call.arg.fault))
           /\ (call.arg.fault \in Faults /\ TreeValue.ok)
                => v = Err(ErrorOf(call.arg.fault))
           /\ (OfTree /\ ~TreeValue.ok) => v = Err(ErrorOf("zero"))
  /\ \A f, g \in Faults \cup {"zero"} :
       CauseOf(f) # CauseOf(g) => ErrorOf(f) # ErrorOf(g)

\* 10/(5-5) has been evaluated to the error of a division by zero
Wit_C25 ==
  /\ Evaluated
  /\ call.arg.text = <<"1", "0", "/", "(", "5", "-", "5", ")">>
  /\ call.arg.tree = Bin("/", Leaf(10), Bin("-", Leaf(5), Leaf(5)))
  /\ call.ret.value = Err("Division by zero")


\* the character of the token in front of position i, "" if there is none
PrevSignificant(s, i) ==
  LET js == {j \in 1..(i - 1) : s[j] # " "}
  IN  IF js = {} THEN "" ELSE s[Largest(js)]

\* position i is that of a first token or follows one of ( + - * /
SignPosition(s, i) == PrevSignificant(s, i) \in {"", "(", "+", "-", "*", "/"}

\* a digit or '.' comes right after position i
LiteralFollows(s, i) == i < Len(s) /\ s[i + 1] \in Digits \cup {"."}

Minuses(s) == {i \in 1..Len(s) : s[i] = "-"}

MinusTokens(tokens) == Count([k \in 1..Len(tokens) |-> tokens[k].type], "Minus")

Tokenized == Evaluated /\ call.ret.tokens.ok

\* C26 as stated: a '-' that is the first token or follows one of ( + - * /
\* starts a negative numeric literal, and every other '-' is the minus
\* operator.
Orig_C26 ==
  Tokenized =>
    MinusTokens(call.ret.tokens.tokens)
      = Cardinality({i \in Minuses(call.arg.text) : ~SignPosition(call.arg.text, i)})

\* C26, amended: a '-' starts a negative numeric literal when it is the first
\* token or follows one of ( + - * / and a digit or '.' comes right after it;
\* every other '-' is the minus operator.
Thm_C26 ==
  Tokenized =>
    LET s == call.arg.text
        tokens == call.ret.tokens.tokens
    IN  /\ MinusTokens(tokens)
             = Cardinality({i \in Minuses(s) :
                              ~(SignPosition(s, i) /\ LiteralFollows(s, i))})
        /\ (Len(s) >= 2 /\ s[1] = "-" /\ s[2] \in Digits)
             => (tokens[1].type = "Number" /\ tokens[1].val[1] <= 0)

\* --5 has been tokenized as the minus operator and the literal -5
Wit_C26 ==
  /\ Tokenized
  /\ call.arg.text = <<"-", "-", "5">>
  /\ call.ret.tokens.tokens = <<Tok("Minus"), NumberTok(<<-5, 1>>)>>
  /\ call.ret.value = Ok(<<5, 1>>)


(***************************************************************************)
(* Properties of the ranked positions, of complete and of the history      *)
(* handle                                                                  *)
(***************************************************************************)
\* the positions (0-based) of the candidates the query matches
Matching == {k \in 0..(Len(all_entries) - 1) :
               fuzzy_match(all_entries[k + 1].name, query) # NoMatch}

\* the ranked positions are those of a search for the current query
Fresh == last_search_result = search(all_entries, query).last_search_result

\* C27 as stated: the ranked positions are pairwise distinct, also with equal
\* duplicate candidates in the list, and after a search there is exactly one
\* per matching candidate, in the order of the ranking.
Orig_C27 ==
  /\ \A i, j \in DOMAIN last_search_result :
       i # j => last_search_result[i] # last_search_result[j]
  /\ Fresh =>
       /\ Len(last_search_result) = Cardinality(Matching)
       /\ \A i \in DOMAIN last_search_result :
            /\ last_search_result[i] \in Matching
            /\ all_entries[last_search_result[i] + 1]
                 = ElementList_search(all_entries, query)[i]


\* C28 as stated: complete in NavigatingResults never looks up a ranked
\* position that does not exist, also when the calculator result is the only
\* display entry and when the last display slot is highlighted beside a
\* calculator result.
Orig_C28 ==
  [][ (last_op'.name = "complete" /\ Navigating)
        => /\ complete_index < Len(last_search_result)
           /\ ~panicked' ]_vars


\* the step is a call of execute
Executes == last_op'.name = "execute" /\ execs' = execs + 1

\* C29: in one session the history is incremented and saved at most once;
\* the first execute that reaches the print or the spawn path takes the
\* history handle, deemed successful or not, so that no later execute
\* updates the history; the clipboard path leaves the handle in place.
Thm_C29 ==
  [][ /\ hist_incs' <= 1
      /\ hist_saves' <= 1
      /\ (hist_incs' # hist_incs \/ hist_saves' # hist_saves)
           => (Executes /\ history /\ Updated)
      /\ ~Executes => UNCHANGED history
      /\ Executes =>
           /\ last_op'.clipboard # <<>>
                => (last_op'.target = <<>> /\ NotUpdated /\ UNCHANGED history)
           /\ last_op'.target # <<>> => ~history'
           /\ ~history => (NotUpdated /\ ~history') ]_vars

\* a second execute, deemed successful, has left alone the history that the
\* first execute updated
Wit_C29 ==
  /\ execs = 2
  /\ hist_incs = 1
  /\ hist_saves = 1
  /\ ~history
  /\ last_op.name = "execute"
  /\ deemed_successful(last_op.status)
  /\ last_op.spawned # <<>>
  /\ last_op.inc = <<>>

====
